---- MODULE Spec2Model ----
(***************************************************************************)
(* Model of the numeric expression engine of sql/item_func.cc: resolution  *)
(* of the result type of arithmetic nodes (fix_fields /                    *)
(* fix_length_and_dec) and their evaluation (int_op / real_op /            *)
(* decimal_op and the val_* dispatchers).                                  *)
(*                                                                         *)
(* Integers keep a fixed width.  The source works on 64-bit longlong /     *)
(* ulonglong values split into two 32-bit half-words; the model keeps the  *)
(* same structure on words of 2*HalfBits bits.  A longlong is modelled by  *)
(* its bit pattern, a natural number below 2^WordBits; signed arithmetic   *)
(* wraps modulo 2^WordBits (two's complement), which is what the           *)
(* generated code does.                                                    *)
(***************************************************************************)
EXTENDS Integers, Sequences, FiniteSets, TLC

\* Width of a half-word (32 in the source, scaled down).
HalfBits == 2

WordBits == 2 * HalfBits
WordMod == 2 ^ WordBits
HalfMod == 2 ^ HalfBits
HalfMask == HalfMod - 1
ULONGLONG_MAX == WordMod - 1
LONGLONG_MAX == 2 ^ (WordBits - 1) - 1
\* bit pattern of the most negative longlong
LONGLONG_MIN == 2 ^ (WordBits - 1)

Words == 0 .. ULONGLONG_MAX

\* Item_result values
INT_RESULT == "INT_RESULT"
REAL_RESULT == "REAL_RESULT"
DECIMAL_RESULT == "DECIMAL_RESULT"
STRING_RESULT == "STRING_RESULT"
TIME_RESULT == "TIME_RESULT"

\* arithmetic on the bit patterns of longlong / ulonglong values
Wrap(x) == x % WordMod

Neg(x) == Wrap(WordMod - x)

\* (longlong) x < 0
IsNeg(x) == x >= LONGLONG_MIN

\* the number a longlong bit pattern stands for
ToSigned(x) == IF x >= LONGLONG_MIN THEN x - WordMod ELSE x

\* the number an evaluation result stands for under a signedness
Interp(x, is_unsigned) == IF is_unsigned THEN x ELSE ToSigned(x)

Abs(m) == IF m < 0 THEN 0 - m ELSE m

\* quotient and remainder of mathematical integers, truncated toward zero
TruncDiv(m, n) == IF (m < 0) = (n < 0) THEN Abs(m) \div Abs(n) ELSE 0 - (Abs(m) \div Abs(n))

TruncMod(m, n) == m - n * TruncDiv(m, n)

\* m fits a 64-bit (here WordBits-bit) integer of the given signedness
Representable(m, is_unsigned) ==
  IF is_unsigned THEN m >= 0 /\ m <= ULONGLONG_MAX
  ELSE m >= 0 - LONGLONG_MIN /\ m <= LONGLONG_MAX

(***************************************************************************)
(* Result of one evaluator call: the returned value v, the null_value the  *)
(* call left in the node, whether a numeric-overflow error was raised, and *)
(* whether a division-by-zero warning was pushed.                          *)
(***************************************************************************)
Result(v, isnull, ovf, warn) == [v |-> v, null_value |-> isnull, overflow |-> ovf, warned |-> warn]

Value(v) == Result(v, FALSE, FALSE, FALSE)

NullResult == Result(0, TRUE, FALSE, FALSE)

\* session sql_mode flags
MODE_ERROR_FOR_DIVISION_BY_ZERO == "ERROR_FOR_DIVISION_BY_ZERO"
MODE_NO_UNSIGNED_SUBTRACTION == "NO_UNSIGNED_SUBTRACTION"
SqlModes == SUBSET {MODE_ERROR_FOR_DIVISION_BY_ZERO, MODE_NO_UNSIGNED_SUBTRACTION}

test_if_sum_overflows_ull(arg1, arg2) == ULONGLONG_MAX - arg1 < arg2

\* raises ER_DATA_OUT_OF_RANGE and returns 0; null_value is left as it was
raise_integer_overflow == Result(0, FALSE, TRUE, FALSE)

check_integer_overflow(value, val_unsigned, unsigned_flag) ==
  IF (unsigned_flag /\ ~val_unsigned /\ IsNeg(value))
     \/ (~unsigned_flag /\ val_unsigned /\ value > LONGLONG_MAX)
  THEN raise_integer_overflow
  ELSE Value(value)

\* signal_divide_by_null without the test of the strict mode
signal_divide_by_null_always_warns(mode) == Result(0, TRUE, FALSE, TRUE)

\* pushes ER_DIVISION_BY_ZERO as a warning under the strict mode, and sets
\* null_value
signal_divide_by_null(mode) == Result(0, TRUE, FALSE, MODE_ERROR_FOR_DIVISION_BY_ZERO \in mode)

\* Item_func_plus::int_op without the tests on the signs of the operands:
\* the wrapped sum goes to check_integer_overflow as it is
Item_func_plus_int_op_no_sign_check(args, unsigned_flag) ==
  LET val0 == args[0].v
      val1 == args[1].v
      res == Wrap(val0 + val1)
  IN  IF args[0].null_value \/ args[1].null_value THEN NullResult
      ELSE check_integer_overflow(res, args[0].unsigned_flag \/ args[1].unsigned_flag,
                                  unsigned_flag)

Item_func_plus_int_op(args, unsigned_flag) ==
  LET val0 == args[0].v
      val1 == args[1].v
      res == Wrap(val0 + val1)
  IN  IF args[0].null_value \/ args[1].null_value THEN NullResult
      ELSE IF args[0].unsigned_flag
      THEN IF args[1].unsigned_flag \/ ~IsNeg(val1)
           THEN IF test_if_sum_overflows_ull(val0, val1)
                THEN raise_integer_overflow
                ELSE check_integer_overflow(res, TRUE, unsigned_flag)
           ELSE check_integer_overflow(res, val0 > LONGLONG_MAX, unsigned_flag)
      ELSE IF args[1].unsigned_flag
      THEN IF ~IsNeg(val0)
           THEN IF test_if_sum_overflows_ull(val0, val1)
                THEN raise_integer_overflow
                ELSE check_integer_overflow(res, TRUE, unsigned_flag)
           ELSE check_integer_overflow(res, val1 > LONGLONG_MAX, unsigned_flag)
      ELSE IF ~IsNeg(val0) /\ ~IsNeg(val1)
           THEN check_integer_overflow(res, TRUE, unsigned_flag)
           ELSE IF IsNeg(val0) /\ IsNeg(val1) /\ ~IsNeg(res)
                THEN raise_integer_overflow
                ELSE check_integer_overflow(res, FALSE, unsigned_flag)

Item_func_minus_int_op(args, unsigned_flag) ==
  LET val0 == args[0].v
      val1 == args[1].v
      res == Wrap(val0 + WordMod - val1)
  IN  IF args[0].null_value \/ args[1].null_value THEN NullResult
      ELSE IF args[0].unsigned_flag
      THEN IF args[1].unsigned_flag
           THEN IF val0 < val1
                THEN IF ~IsNeg(res)
                     THEN raise_integer_overflow
                     ELSE check_integer_overflow(res, FALSE, unsigned_flag)
                ELSE check_integer_overflow(res, TRUE, unsigned_flag)
           ELSE IF ~IsNeg(val1)
                THEN check_integer_overflow(res, val0 > val1, unsigned_flag)
                ELSE IF test_if_sum_overflows_ull(val0, Neg(val1))
                     THEN raise_integer_overflow
                     ELSE check_integer_overflow(res, TRUE, unsigned_flag)
      ELSE IF args[1].unsigned_flag
      THEN IF Wrap(val0 + WordMod - LONGLONG_MIN) < val1
           THEN raise_integer_overflow
           ELSE check_integer_overflow(res, FALSE, unsigned_flag)
      ELSE IF (~IsNeg(val0) /\ val0 # 0) /\ IsNeg(val1)
           THEN check_integer_overflow(res, TRUE, unsigned_flag)
           ELSE IF IsNeg(val0) /\ (~IsNeg(val1) /\ val1 # 0) /\ ~IsNeg(res)
                THEN raise_integer_overflow
                ELSE check_integer_overflow(res, FALSE, unsigned_flag)

Item_func_mul_int_op(args, unsigned_flag) ==
  LET a_negative == ~args[0].unsigned_flag /\ IsNeg(args[0].v)
      b_negative == ~args[1].unsigned_flag /\ IsNeg(args[1].v)
      a == IF a_negative THEN Neg(args[0].v) ELSE args[0].v
      b == IF b_negative THEN Neg(args[1].v) ELSE args[1].v
      a0 == a % HalfMod
      a1 == a \div HalfMod
      b0 == b % HalfMod
      b1 == b \div HalfMod
      res1 == Wrap(Wrap(a1 * b0) + Wrap(a0 * b1))
      res1s == Wrap(res1 * HalfMod)
      res0 == Wrap(a0 * b0)
      res == Wrap(res1s + res0)
  IN  IF args[0].null_value \/ args[1].null_value THEN NullResult
      ELSE IF a1 # 0 /\ b1 # 0 THEN raise_integer_overflow
      ELSE IF res1 > HalfMask THEN raise_integer_overflow
      ELSE IF test_if_sum_overflows_ull(res1s, res0) THEN raise_integer_overflow
      ELSE IF a_negative # b_negative
           THEN IF res > LONGLONG_MIN + 1
                THEN raise_integer_overflow
                ELSE check_integer_overflow(Neg(res), FALSE, unsigned_flag)
           ELSE check_integer_overflow(res, TRUE, unsigned_flag)

\* the integer path of Item_func_int_div::val_int (both operands INT_RESULT)
Item_func_int_div_int_path(args, unsigned_flag, mode) ==
  LET val0 == args[0].v
      val1 == args[1].v
      val0_negative == ~args[0].unsigned_flag /\ IsNeg(val0)
      val1_negative == ~args[1].unsigned_flag /\ IsNeg(val1)
      res_negative == val0_negative # val1_negative
      uval0 == IF val0_negative THEN Neg(val0) ELSE val0
      uval1 == IF val1_negative THEN Neg(val1) ELSE val1
      res == uval0 \div uval1
  IN  IF args[0].null_value \/ args[1].null_value THEN NullResult
      ELSE IF val1 = 0 THEN signal_divide_by_null(mode)
      ELSE IF res_negative
           THEN IF res > LONGLONG_MAX
                THEN raise_integer_overflow
                ELSE check_integer_overflow(Neg(res), FALSE, unsigned_flag)
           ELSE check_integer_overflow(res, TRUE, unsigned_flag)

\* Item_func_mod::int_op without the restoration of the dividend's sign
Item_func_mod_int_op_no_sign(args, unsigned_flag, mode) ==
  LET val0 == args[0].v
      val1 == args[1].v
      val0_negative == ~args[0].unsigned_flag /\ IsNeg(val0)
      val1_negative == ~args[1].unsigned_flag /\ IsNeg(val1)
      uval0 == IF val0_negative THEN Neg(val0) ELSE val0
      uval1 == IF val1_negative THEN Neg(val1) ELSE val1
      res == uval0 % uval1
  IN  IF args[0].null_value \/ args[1].null_value THEN NullResult
      ELSE IF val1 = 0 THEN signal_divide_by_null(mode)
      ELSE check_integer_overflow(res, ~val0_negative, unsigned_flag)

Item_func_mod_int_op(args, unsigned_flag, mode) ==
  LET val0 == args[0].v
      val1 == args[1].v
      val0_negative == ~args[0].unsigned_flag /\ IsNeg(val0)
      val1_negative == ~args[1].unsigned_flag /\ IsNeg(val1)
      uval0 == IF val0_negative THEN Neg(val0) ELSE val0
      uval1 == IF val1_negative THEN Neg(val1) ELSE val1
      res == uval0 % uval1
  IN  IF args[0].null_value \/ args[1].null_value THEN NullResult
      ELSE IF val1 = 0 THEN signal_divide_by_null(mode)
      ELSE check_integer_overflow(IF val0_negative THEN Neg(res) ELSE res,
                                  ~val0_negative, unsigned_flag)

(***************************************************************************)
(* Operands.  An operand (Item) carries the attributes resolution reads    *)
(* (cast_to_int_type, result_type, unsigned_flag, decimals, max_length,    *)
(* const_item) and its current value: the word v and null_value.           *)
(* A non-integer operand's value is an integer-valued real or decimal.     *)
(***************************************************************************)
NOT_FIXED_DEC == 39
FLOATING_POINT_DECIMALS == 31
DECIMAL_MAX_SCALE == 30
DECIMAL_MAX_PRECISION == 65
DECIMAL_LONGLONG_DIGITS == 22
INT_MAX == 2147483647

\* scale of the fixed-point and temporal operands that have one
OperandScale == 2
\* display lengths of the operands: one that fits a longlong, one that does not
ShortLength == 5
LongLength == 25

Max(a, b) == IF a > b THEN a ELSE b

Min(a, b) == IF a < b THEN a ELSE b

Item(cit, rt, uns, dec, len, cst, type) ==
  [cit |-> cit, rt |-> rt, unsigned_flag |-> uns, decimals |-> dec,
   max_length |-> len, const_item |-> cst, type |-> type, v |-> 0, null_value |-> FALSE]

\* Item::decimal_scale for operands whose decimals are fixed
decimal_scale(item) == Min(item.decimals, DECIMAL_MAX_SCALE)

my_decimal_length_to_precision(length, scale, unsigned_flag) ==
  length - (IF scale > 0 THEN 1 ELSE 0) - (IF unsigned_flag \/ length = 0 THEN 0 ELSE 1)

\* Item::decimal_precision of an integer or fixed-point operand
decimal_precision(item) ==
  Min(my_decimal_length_to_precision(item.max_length, decimal_scale(item), item.unsigned_flag),
      DECIMAL_MAX_PRECISION)

(***************************************************************************)
(* Resolution.  Each fix_length_and_dec is an operator from the operands   *)
(* (and the session) to the attributes it leaves in the node: the result   *)
(* type of the type handler, decimals and unsigned_flag.  max_length of    *)
(* the node is not tracked.  A node starts with the type handler of a      *)
(* double, decimals 0 and unsigned_flag false.                             *)
(***************************************************************************)
Attrs(type, dec, uns) == [type |-> type, decimals |-> dec, unsigned_flag |-> uns]

\* decimals and unsigned_flag left by Item_func::count_real_length
count_real_length(args) ==
  LET d0 == Max(0, args[0].decimals)
      d1 == IF d0 < FLOATING_POINT_DECIMALS THEN Max(d0, args[1].decimals) ELSE d0
  IN  Attrs(REAL_RESULT, d1, FALSE)

\* result_precision() with unsigned_flag the disjunction of the operands'
\* flags whatever the result type is
result_precision_unsigned_or(op, type, args, prec_increment) ==
  LET either == args[0].unsigned_flag \/ args[1].unsigned_flag
      s0 == decimal_scale(args[0])
      s1 == decimal_scale(args[1])
  IN  CASE op \in {"plus", "minus"} -> Attrs(type, Max(s0, s1), either)
        [] op = "mul" -> Attrs(type, Min(s0 + s1, DECIMAL_MAX_SCALE), either)
        [] op = "div" -> Attrs(type, Min(s0 + prec_increment, DECIMAL_MAX_SCALE), either)
        [] op = "mod" -> Attrs(type, Max(s0, s1), args[0].unsigned_flag)

\* result_precision() of the five binary operators, called with the node's
\* result type already set to `type`
result_precision(op, type, args, prec_increment) ==
  LET either == args[0].unsigned_flag \/ args[1].unsigned_flag
      both == args[0].unsigned_flag /\ args[1].unsigned_flag
      uns == IF type = INT_RESULT THEN either ELSE both
      s0 == decimal_scale(args[0])
      s1 == decimal_scale(args[1])
  IN  CASE op \in {"plus", "minus"} -> Attrs(type, Max(s0, s1), uns)
        [] op = "mul" -> Attrs(type, Min(s0 + s1, DECIMAL_MAX_SCALE), uns)
        [] op = "div" -> Attrs(type, Min(s0 + prec_increment, DECIMAL_MAX_SCALE), uns)
        [] op = "mod" -> Attrs(type, Max(s0, s1), args[0].unsigned_flag)

\* Item_num_op::fix_length_and_dec with the change to INT_RESULT kept for a
\* subtraction of two temporal operands only
Item_num_op_fix_length_and_dec_minus_only(op, args, prec_increment) ==
  LET r0 == args[0].cit
      r1 == args[1].cit
  IN  IF r0 = REAL_RESULT \/ r1 = REAL_RESULT \/ r0 = STRING_RESULT \/ r1 = STRING_RESULT
      THEN count_real_length(args)
      ELSE IF r0 = DECIMAL_RESULT \/ r1 = DECIMAL_RESULT \/ r0 = TIME_RESULT \/ r1 = TIME_RESULT
      THEN LET a == result_precision(op, DECIMAL_RESULT, args, prec_increment)
           IN  IF op = "minus" /\ r0 = TIME_RESULT /\ r1 = TIME_RESULT /\ a.decimals = 0
               THEN Attrs(INT_RESULT, a.decimals, a.unsigned_flag)
               ELSE a
      ELSE LET a == result_precision(op, INT_RESULT, args, prec_increment)
           IN  Attrs(INT_RESULT, 0, a.unsigned_flag)

\* Item_num_op::fix_length_and_dec.  fix_decimals() only touches a node
\* whose decimals are NOT_FIXED_DEC, which result_precision never leaves.
Item_num_op_fix_length_and_dec(op, args, prec_increment) ==
  LET r0 == args[0].cit
      r1 == args[1].cit
  IN  IF r0 = REAL_RESULT \/ r1 = REAL_RESULT \/ r0 = STRING_RESULT \/ r1 = STRING_RESULT
      THEN count_real_length(args)
      ELSE IF r0 = DECIMAL_RESULT \/ r1 = DECIMAL_RESULT \/ r0 = TIME_RESULT \/ r1 = TIME_RESULT
      THEN LET a == result_precision(op, DECIMAL_RESULT, args, prec_increment)
           IN  IF (r0 = TIME_RESULT \/ r1 = TIME_RESULT) /\ a.decimals = 0
               THEN Attrs(INT_RESULT, a.decimals, a.unsigned_flag)
               ELSE a
      ELSE LET a == result_precision(op, INT_RESULT, args, prec_increment)
           IN  Attrs(INT_RESULT, 0, a.unsigned_flag)

Item_func_minus_fix_length_and_dec(args, mode) ==
  LET a == Item_num_op_fix_length_and_dec("minus", args, 0)
  IN  IF a.unsigned_flag /\ MODE_NO_UNSIGNED_SUBTRACTION \in mode
      THEN Attrs(a.type, a.decimals, FALSE)
      ELSE a

Item_func_div_fix_length_and_dec(args, prec_increment) ==
  LET a == Item_num_op_fix_length_and_dec("div", args, prec_increment)
  IN  CASE a.type = REAL_RESULT ->
             Attrs(REAL_RESULT,
                   Min(Max(args[0].decimals, args[1].decimals) + prec_increment, NOT_FIXED_DEC),
                   a.unsigned_flag)
        [] a.type = INT_RESULT -> result_precision("div", DECIMAL_RESULT, args, prec_increment)
        [] a.type = DECIMAL_RESULT -> result_precision("div", DECIMAL_RESULT, args, prec_increment)

Item_func_mod_fix_length_and_dec(args) ==
  LET a == Item_num_op_fix_length_and_dec("mod", args, 0)
  IN  Attrs(a.type, a.decimals, args[0].unsigned_flag)

\* Item_int_func: the node is an integer; decimals stay 0
Item_func_int_div_fix_length_and_dec(args) ==
  Attrs(INT_RESULT, 0, args[0].unsigned_flag \/ args[1].unsigned_flag)

\* Item_func_num1::fix_length_and_dec (NEG, ABS)
Item_func_num1_fix_length_and_dec(args) ==
  CASE args[0].cit = INT_RESULT -> Attrs(INT_RESULT, 0, args[0].unsigned_flag)
    [] args[0].cit \in {STRING_RESULT, REAL_RESULT} -> Attrs(REAL_RESULT, args[0].decimals, FALSE)
    [] args[0].cit \in {TIME_RESULT, DECIMAL_RESULT} ->
         Attrs(DECIMAL_RESULT, decimal_scale(args[0]), FALSE)

Item_func_neg_fix_length_and_dec(args) ==
  LET a == Item_func_num1_fix_length_and_dec(args)
      val == args[0].v
  IN  IF a.type = INT_RESULT /\ args[0].const_item
         /\ val >= LONGLONG_MIN /\ (val # LONGLONG_MIN \/ args[0].type # "INT_ITEM")
      THEN Attrs(DECIMAL_RESULT, a.decimals, FALSE)
      ELSE Attrs(a.type, a.decimals, FALSE)

Item_func_abs_fix_length_and_dec(args) ==
  LET a == Item_func_num1_fix_length_and_dec(args)
  IN  Attrs(a.type, a.decimals, args[0].unsigned_flag)

\* Item_func_int_val::fix_length_and_dec (CEILING, FLOOR)
Item_func_int_val_fix_length_and_dec(args) ==
  IF args[0].cit \in {STRING_RESULT, REAL_RESULT}
  THEN Attrs(REAL_RESULT, 0, FALSE)
  ELSE IF args[0].max_length - args[0].decimals >= DECIMAL_LONGLONG_DIGITS - 2
       THEN Attrs(DECIMAL_RESULT, 0, FALSE)
       ELSE Attrs(INT_RESULT, 0, args[0].unsigned_flag)

\* Item_func_round::fix_length_and_dec (ROUND, and TRUNCATE when truncate)
Item_func_round_fix_length_and_dec(args, truncate) ==
  LET val1 == args[1].v
      val1_unsigned == args[1].unsigned_flag
      decimals_to_set == IF IsNeg(val1)
                         THEN (IF val1_unsigned THEN INT_MAX ELSE 0)
                         ELSE (IF val1 > INT_MAX THEN INT_MAX ELSE val1)
      uns == args[0].unsigned_flag
      dec_path == Attrs(DECIMAL_RESULT, Min(Min(DECIMAL_MAX_SCALE, decimals_to_set),
                                             DECIMAL_MAX_SCALE), uns)
  IN  IF ~args[1].const_item
      THEN (IF args[0].rt = DECIMAL_RESULT
            THEN Attrs(DECIMAL_RESULT, args[0].decimals, uns)
            ELSE Attrs(REAL_RESULT, args[0].decimals, uns))
      ELSE IF args[1].null_value THEN Attrs(REAL_RESULT, 0, uns)
      ELSE IF args[0].decimals = NOT_FIXED_DEC
      THEN Attrs(REAL_RESULT, Min(decimals_to_set, NOT_FIXED_DEC), uns)
      ELSE CASE args[0].rt \in {REAL_RESULT, STRING_RESULT} ->
                  Attrs(REAL_RESULT, Min(decimals_to_set, NOT_FIXED_DEC), uns)
             [] args[0].rt = INT_RESULT ->
                  IF (decimals_to_set = 0 /\ truncate)
                     \/ decimal_precision(args[0]) < DECIMAL_LONGLONG_DIGITS
                  THEN Attrs(INT_RESULT, 0, uns)
                  ELSE dec_path
             [] args[0].rt = DECIMAL_RESULT -> dec_path

(***************************************************************************)
(* Values of the operands in the three domains.  The word of an integer,   *)
(* fixed-point or temporal operand stands for that integer; the word of a  *)
(* REAL or STRING operand stands for that many RealUnit, so that a double  *)
(* can be as large as DBL_MAX.  RealUnit is also the spacing of doubles    *)
(* near DBL_MAX: a result within half of it of DBL_MAX is finite.          *)
(***************************************************************************)
RealUnit == 2 * WordMod

DBL_MAX == LONGLONG_MAX * RealUnit

isfinite(x) == Abs(x) < DBL_MAX + WordMod

val_real(item) ==
  IF item.cit \in {REAL_RESULT, STRING_RESULT}
  THEN ToSigned(item.v) * RealUnit
  ELSE Interp(item.v, item.unsigned_flag)

val_decimal(item) == Interp(item.v, item.unsigned_flag)

\* raises ER_DATA_OUT_OF_RANGE and returns 0.0
raise_float_overflow == Result(0, FALSE, TRUE, FALSE)

check_float_overflow(value) == IF isfinite(value) THEN Value(value) ELSE raise_float_overflow

\* status codes of the decimal library
E_DEC_OK == 0
E_DEC_TRUNCATED == 1
E_DEC_OVERFLOW == 2
E_DEC_DIV_ZERO == 4

\* The statuses a decimal library primitive can return for the operands:
\* division and modulo by zero give E_DEC_DIV_ZERO; otherwise the outcome
\* depends on the precision of the operands, which the model leaves open.
DecimalStatuses(op, args) ==
  IF op \in {"div", "mod", "int_div"} /\ val_decimal(args[1]) = 0
  THEN {E_DEC_DIV_ZERO}
  ELSE {E_DEC_OK, E_DEC_TRUNCATED, E_DEC_OVERFLOW}

\* check_decimal_overflow raises ER_DATA_OUT_OF_RANGE on E_DEC_OVERFLOW and
\* returns the status it was given
DecimalResult(value, err) == Result(value, err > 3, err = E_DEC_OVERFLOW, FALSE)

Item_func_plus_real_op(args) ==
  IF args[0].null_value \/ args[1].null_value THEN NullResult
  ELSE check_float_overflow(val_real(args[0]) + val_real(args[1]))

Item_func_plus_decimal_op(args, st) ==
  IF args[0].null_value THEN NullResult
  ELSE IF args[1].null_value THEN NullResult
  ELSE DecimalResult(val_decimal(args[0]) + val_decimal(args[1]), st)

Item_func_minus_real_op(args) ==
  IF args[0].null_value \/ args[1].null_value THEN NullResult
  ELSE check_float_overflow(val_real(args[0]) - val_real(args[1]))

Item_func_minus_decimal_op(args, st) ==
  IF args[0].null_value THEN NullResult
  ELSE IF args[1].null_value THEN NullResult
  ELSE DecimalResult(val_decimal(args[0]) - val_decimal(args[1]), st)

Item_func_mul_real_op(args) ==
  IF args[0].null_value \/ args[1].null_value THEN NullResult
  ELSE check_float_overflow(val_real(args[0]) * val_real(args[1]))

Item_func_mul_decimal_op(args, st) ==
  IF args[0].null_value THEN NullResult
  ELSE IF args[1].null_value THEN NullResult
  ELSE DecimalResult(val_decimal(args[0]) * val_decimal(args[1]), st)

\* Item_func_div::real_op with the test of the divisor before the test of
\* null_value
Item_func_div_real_op_zero_first(args, mode) ==
  IF val_real(args[1]) = 0 THEN signal_divide_by_null(mode)
  ELSE IF args[0].null_value \/ args[1].null_value THEN NullResult
  ELSE check_float_overflow(TruncDiv(val_real(args[0]), val_real(args[1])))

\* the quotient of two integer-valued doubles is kept to its integer part
Item_func_div_real_op(args, mode) ==
  IF args[0].null_value \/ args[1].null_value THEN NullResult
  ELSE IF val_real(args[1]) = 0 THEN signal_divide_by_null(mode)
  ELSE check_float_overflow(TruncDiv(val_real(args[0]), val_real(args[1])))

\* Item_func_div::decimal_op without the call of signal_divide_by_null
Item_func_div_decimal_op_no_signal(args, st, mode) ==
  IF args[0].null_value THEN NullResult
  ELSE IF args[1].null_value THEN NullResult
  ELSE IF st > 3
       THEN NullResult
       ELSE DecimalResult(TruncDiv(val_decimal(args[0]), val_decimal(args[1])), st)

Item_func_div_decimal_op(args, st, mode) ==
  IF args[0].null_value THEN NullResult
  ELSE IF args[1].null_value THEN NullResult
  ELSE IF st > 3
       THEN (IF st = E_DEC_DIV_ZERO THEN signal_divide_by_null(mode) ELSE NullResult)
       ELSE DecimalResult(TruncDiv(val_decimal(args[0]), val_decimal(args[1])), st)

\* my_decimal2int: the integer, clipped to the range of the signedness, and
\* whether it was clipped (E_DEC_OVERFLOW)
my_decimal2int(m, unsigned_flag) ==
  LET lo == IF unsigned_flag THEN 0 ELSE 0 - LONGLONG_MIN
      hi == IF unsigned_flag THEN ULONGLONG_MAX ELSE LONGLONG_MAX
      c == IF m < lo THEN lo ELSE IF m > hi THEN hi ELSE m
  IN  [v |-> Wrap(c + WordMod), overflow |-> c # m]

\* the decimal path of Item_func_int_div::val_int (an operand is not INT_RESULT)
Item_func_int_div_decimal_path(args, unsigned_flag, st, mode) ==
  IF args[0].null_value THEN NullResult
  ELSE IF args[1].null_value THEN NullResult
  ELSE IF st > 3
       THEN (IF st = E_DEC_DIV_ZERO THEN signal_divide_by_null(mode) ELSE Value(0))
       ELSE LET r == my_decimal2int(TruncDiv(val_decimal(args[0]), val_decimal(args[1])),
                                    unsigned_flag)
            IN  Result(r.v, FALSE, r.overflow, FALSE)

Item_func_int_div_val_int(args, unsigned_flag, st, mode) ==
  IF args[0].rt # INT_RESULT \/ args[1].rt # INT_RESULT
  THEN Item_func_int_div_decimal_path(args, unsigned_flag, st, mode)
  ELSE Item_func_int_div_int_path(args, unsigned_flag, mode)

Item_func_mod_real_op(args, mode) ==
  IF args[0].null_value \/ args[1].null_value THEN NullResult
  ELSE IF val_real(args[1]) = 0 THEN signal_divide_by_null(mode)
  ELSE Value(TruncMod(val_real(args[0]), val_real(args[1])))

Item_func_mod_decimal_op(args, st, mode) ==
  IF args[0].null_value THEN NullResult
  ELSE IF args[1].null_value THEN NullResult
  ELSE CASE st \in {E_DEC_TRUNCATED, E_DEC_OK} ->
              Value(TruncMod(val_decimal(args[0]), val_decimal(args[1])))
         [] st = E_DEC_DIV_ZERO -> signal_divide_by_null(mode)
         [] OTHER -> NullResult

\* Item_func_neg::int_op without the test of an unsigned operand above 2^63
Item_func_neg_int_op_no_unsigned_test(args, unsigned_flag) ==
  LET value == args[0].v
  IN  IF args[0].null_value THEN NullResult
      ELSE IF value = LONGLONG_MIN
           THEN (IF args[0].unsigned_flag # unsigned_flag
                 THEN Value(LONGLONG_MIN)
                 ELSE raise_integer_overflow)
           ELSE check_integer_overflow(Neg(value), ~args[0].unsigned_flag /\ IsNeg(value),
                                       unsigned_flag)

Item_func_neg_int_op(args, unsigned_flag) ==
  LET value == args[0].v
  IN  IF args[0].null_value THEN NullResult
      ELSE IF args[0].unsigned_flag /\ value > LONGLONG_MAX + 1 THEN raise_integer_overflow
      ELSE IF value = LONGLONG_MIN
           THEN (IF args[0].unsigned_flag # unsigned_flag
                 THEN Value(LONGLONG_MIN)
                 ELSE raise_integer_overflow)
           ELSE check_integer_overflow(Neg(value), ~args[0].unsigned_flag /\ IsNeg(value),
                                       unsigned_flag)

Item_func_neg_real_op(args) == Result(0 - val_real(args[0]), args[0].null_value, FALSE, FALSE)

Item_func_neg_decimal_op(args) ==
  IF args[0].null_value THEN NullResult ELSE Value(0 - val_decimal(args[0]))

Item_func_abs_int_op(args, unsigned_flag) ==
  LET value == args[0].v
  IN  IF args[0].null_value THEN NullResult
      ELSE IF unsigned_flag THEN Value(value)
      ELSE IF value = LONGLONG_MIN THEN raise_integer_overflow
      ELSE Value(IF ~IsNeg(value) THEN value ELSE Neg(value))

Item_func_abs_real_op(args) == Result(Abs(val_real(args[0])), args[0].null_value, FALSE, FALSE)

Item_func_abs_decimal_op(args) ==
  IF args[0].null_value THEN NullResult ELSE Value(Abs(val_decimal(args[0])))

\* ceil and floor of an integer-valued double or decimal
Item_func_int_val_real_op(args) == Result(val_real(args[0]), args[0].null_value, FALSE, FALSE)

\* my_decimal_ceiling / my_decimal_floor return the status st
Item_func_int_val_decimal_op(args, st) ==
  IF args[0].null_value \/ st > 1 THEN NullResult ELSE Value(val_decimal(args[0]))

\* Item_func_ceiling::int_op and Item_func_floor::int_op: the result and the
\* evaluators of the node that int_op itself calls
Item_func_int_val_int_op(args, unsigned_flag, st) ==
  CASE args[0].rt = INT_RESULT ->
         [res |-> Result(args[0].v, args[0].null_value, FALSE, FALSE), calls |-> <<>>]
    [] args[0].rt = DECIMAL_RESULT ->
         LET dec == Item_func_int_val_decimal_op(args, st)
         IN  [res |-> IF dec.null_value THEN NullResult
                      ELSE Value(my_decimal2int(dec.v, unsigned_flag).v),
              calls |-> <<"decimal_op">>]
    [] OTHER ->
         LET r == Item_func_int_val_real_op(args)
         IN  [res |-> Result(Wrap(r.v + WordMod * RealUnit), r.null_value, FALSE, FALSE),
              calls |-> <<"real_op">>]

\* log_10_int[k] and the number of its elements: the powers of ten that fit
\* a ulonglong
log_10_int(k) == 10 ^ k

log_10_int_elements == Cardinality({k \in 0 .. WordBits : 10 ^ k <= ULONGLONG_MAX})

my_unsigned_round(value, to) ==
  LET tmp == (value \div to) * to
  IN  IF value - tmp < to \div 2 THEN tmp ELSE Wrap(tmp + to)

\* the value Item_func_round::int_op returns; it also stores 0 in decimals
Item_func_round_int_op(args, unsigned_flag, truncate) ==
  LET value == args[0].v
      dec == args[1].v
      abs_dec == Neg(dec)
      tmp == log_10_int(abs_dec)
      \* the table holds longlong values: tmp as a word, and as a number
      utmp == Wrap(tmp)
      stmp == ToSigned(utmp)
  IN  IF args[0].null_value \/ args[1].null_value THEN NullResult
      ELSE IF ~IsNeg(dec) \/ args[1].unsigned_flag THEN Value(value)
      ELSE IF abs_dec >= log_10_int_elements THEN Value(0)
      ELSE IF truncate
           THEN (IF unsigned_flag
                 THEN Value(Wrap((value \div utmp) * utmp))
                 ELSE Value(Wrap(TruncDiv(ToSigned(value), stmp) * stmp + WordMod * WordMod)))
           ELSE (IF unsigned_flag \/ ~IsNeg(value)
                 THEN Value(my_unsigned_round(value, utmp))
                 ELSE Value(Neg(my_unsigned_round(Neg(value), utmp))))

FloorDiv(m, n) == IF m >= 0 THEN m \div n ELSE 0 - ((0 - m + n - 1) \div n)

CeilDiv(m, n) == 0 - FloorDiv(0 - m, n)

\* rint(m / n), n > 0: to nearest, halves to even
RintDiv(m, n) ==
  LET q == FloorDiv(m, n)
      r == m - q * n
  IN  IF 2 * r < n THEN q
      ELSE IF 2 * r > n THEN q + 1
      ELSE IF q % 2 = 0 THEN q ELSE q + 1

\* m / n, n > 0, to nearest, halves away from zero
RoundHalfAwayDiv(m, n) ==
  IF m >= 0 THEN FloorDiv(2 * m + n, 2 * n) ELSE 0 - FloorDiv(2 * (0 - m) + n, 2 * n)

\* pow(10.0, k); every power from 10^WordBits on exceeds DBL_MAX (infinite)
pow10(k) == IF k >= WordBits THEN 10 ^ WordBits ELSE 10 ^ k

\* my_double_round with halves rounded away from zero instead of rint()
my_double_round_half_away(value, dec, dec_unsigned, truncate) ==
  LET dec_negative == IsNeg(dec) /\ ~dec_unsigned
      abs_dec == IF dec_negative THEN Neg(dec) ELSE dec
      tmp == pow10(abs_dec)
  IN  IF ~dec_negative /\ ~isfinite(tmp) THEN value
      ELSE IF dec_negative /\ ~isfinite(tmp) THEN 0
      ELSE IF ~dec_negative /\ ~isfinite(value * tmp) THEN value
      ELSE IF truncate
           THEN (IF value >= 0
                 THEN (IF IsNeg(dec) THEN FloorDiv(value, tmp) * tmp ELSE value)
                 ELSE (IF IsNeg(dec) THEN CeilDiv(value, tmp) * tmp ELSE value))
           ELSE (IF IsNeg(dec) THEN RoundHalfAwayDiv(value, tmp) * tmp ELSE value)

\* my_double_round on an integer-valued double
my_double_round(value, dec, dec_unsigned, truncate) ==
  LET dec_negative == IsNeg(dec) /\ ~dec_unsigned
      abs_dec == IF dec_negative THEN Neg(dec) ELSE dec
      tmp == pow10(abs_dec)
  IN  IF ~dec_negative /\ ~isfinite(tmp) THEN value
      ELSE IF dec_negative /\ ~isfinite(tmp) THEN 0
      ELSE IF ~dec_negative /\ ~isfinite(value * tmp) THEN value
      ELSE IF truncate
           THEN (IF value >= 0
                 THEN (IF IsNeg(dec) THEN FloorDiv(value, tmp) * tmp ELSE value)
                 ELSE (IF IsNeg(dec) THEN CeilDiv(value, tmp) * tmp ELSE value))
           ELSE (IF IsNeg(dec) THEN RintDiv(value, tmp) * tmp ELSE value)

Item_func_round_real_op(args, truncate) ==
  IF args[0].null_value THEN NullResult
  ELSE IF args[1].null_value THEN NullResult
  ELSE Value(my_double_round(val_real(args[0]), args[1].v, args[1].unsigned_flag, truncate))

\* my_decimal_round of an integer-valued decimal returns the status st
Item_func_round_decimal_op(args, decimals, truncate, st) ==
  LET value == val_decimal(args[0])
      dec == IF ~IsNeg(args[1].v) \/ args[1].unsigned_flag
             THEN Min(args[1].v, decimals)
             ELSE ToSigned(args[1].v)
      to == pow10(0 - dec)
  IN  IF args[0].null_value \/ args[1].null_value \/ st > 1 THEN NullResult
      ELSE IF dec >= 0 THEN Value(value)
      ELSE IF truncate THEN Value(TruncDiv(value, to) * to)
      ELSE Value(RoundHalfAwayDiv(value, to) * to)

(***************************************************************************)
(* Dispatch.  HybridOps are the nodes of Item_func_hybrid_field_type; the  *)
(* switch on cmp_type() of val_int, val_real, val_decimal and val_str      *)
(* calls one evaluator.  An evaluation gives the result of the evaluator   *)
(* and the sequence of evaluators of the node that ran.  The conversion of *)
(* the result to the caller's domain is not modelled.                      *)
(***************************************************************************)
BinaryHybridOps == {"plus", "minus", "mul", "div", "mod"}
UnaryHybridOps == {"neg", "abs", "ceiling", "floor"}
RoundOps == {"round", "truncate"}
HybridOps == BinaryHybridOps \cup UnaryHybridOps \cup RoundOps

int_op(f, a, mode, st) ==
  CASE f.op = "plus" -> [res |-> Item_func_plus_int_op(a, f.unsigned_flag), calls |-> <<>>]
    [] f.op = "minus" -> [res |-> Item_func_minus_int_op(a, f.unsigned_flag), calls |-> <<>>]
    [] f.op = "mul" -> [res |-> Item_func_mul_int_op(a, f.unsigned_flag), calls |-> <<>>]
    [] f.op = "mod" -> [res |-> Item_func_mod_int_op(a, f.unsigned_flag, mode), calls |-> <<>>]
    [] f.op = "neg" -> [res |-> Item_func_neg_int_op(a, f.unsigned_flag), calls |-> <<>>]
    [] f.op = "abs" -> [res |-> Item_func_abs_int_op(a, f.unsigned_flag), calls |-> <<>>]
    [] f.op \in {"ceiling", "floor"} -> Item_func_int_val_int_op(a, f.unsigned_flag, st)
    [] f.op \in RoundOps ->
         [res |-> Item_func_round_int_op(a, f.unsigned_flag, f.op = "truncate"), calls |-> <<>>]

real_op(f, a, mode) ==
  CASE f.op = "plus" -> Item_func_plus_real_op(a)
    [] f.op = "minus" -> Item_func_minus_real_op(a)
    [] f.op = "mul" -> Item_func_mul_real_op(a)
    [] f.op = "div" -> Item_func_div_real_op(a, mode)
    [] f.op = "mod" -> Item_func_mod_real_op(a, mode)
    [] f.op = "neg" -> Item_func_neg_real_op(a)
    [] f.op = "abs" -> Item_func_abs_real_op(a)
    [] f.op \in {"ceiling", "floor"} -> Item_func_int_val_real_op(a)
    [] f.op \in RoundOps -> Item_func_round_real_op(a, f.op = "truncate")

decimal_op(f, a, mode, st) ==
  CASE f.op = "plus" -> Item_func_plus_decimal_op(a, st)
    [] f.op = "minus" -> Item_func_minus_decimal_op(a, st)
    [] f.op = "mul" -> Item_func_mul_decimal_op(a, st)
    [] f.op = "div" -> Item_func_div_decimal_op(a, st, mode)
    [] f.op = "mod" -> Item_func_mod_decimal_op(a, st, mode)
    [] f.op = "neg" -> Item_func_neg_decimal_op(a)
    [] f.op = "abs" -> Item_func_abs_decimal_op(a)
    [] f.op \in {"ceiling", "floor"} -> Item_func_int_val_decimal_op(a, st)
    [] f.op \in RoundOps -> Item_func_round_decimal_op(a, f.decimals, f.op = "truncate", st)

\* a dispatch that ignores cmp_type()
Item_func_hybrid_field_type_dispatch_always_real(f, a, mode, st) ==
  [res |-> real_op(f, a, mode), calls |-> <<"real_op">>]

\* the switch on cmp_type() shared by val_int, val_real, val_decimal, val_str
Item_func_hybrid_field_type_dispatch(f, a, mode, st) ==
  CASE f.type = DECIMAL_RESULT ->
         [res |-> decimal_op(f, a, mode, st), calls |-> <<"decimal_op">>]
    [] f.type = INT_RESULT ->
         LET r == int_op(f, a, mode, st)
         IN  [res |-> r.res, calls |-> <<"int_op">> \o r.calls]
    [] f.type = REAL_RESULT ->
         [res |-> real_op(f, a, mode), calls |-> <<"real_op">>]

\* the assignments to resolved attributes of the node (result type,
\* decimals, unsigned_flag) in the body of an evaluator, as pairs of the
\* attribute and the value stored: Item_func_round::int_op has "decimals= 0"
\* (the first definition stores NOT_FIXED_DEC instead)
Item_func_round_int_op_stores_not_fixed == {<<"decimals", NOT_FIXED_DEC>>}

Item_func_round_int_op_stores == {<<"decimals", 0>>}

\* the attribute stores of the evaluators in calls
Stores(f, calls) ==
  IF f.op \in RoundOps /\ calls # <<>> /\ calls[1] = "int_op"
  THEN Item_func_round_int_op_stores
  ELSE {}

\* the node after an evaluation made the stores
AfterEvaluation(f, stores) ==
  [f EXCEPT !.decimals = IF \E w \in stores : w[1] = "decimals"
                         THEN (CHOOSE w \in stores : w[1] = "decimals")[2]
                         ELSE @]

(***************************************************************************)
(* State.                                                                  *)
(*   func   the node being resolved and evaluated: its operator, the       *)
(*          attributes fix_length_and_dec left, prec_increment, fixed      *)
(*   args   its operands, with the values of the current row               *)
(*   out    the last evaluation of the current row under the current       *)
(*          session: the entry point called, the evaluators of the node    *)
(*          that ran, the attributes they stored, and the result           *)
(*   thd    the session: sql_mode and div_precincrement                    *)
(*   tree, fixed, stack, log                                               *)
(*          an expression tree under Item_func::fix_fields: the operands   *)
(*          of each node, the fixed flags, the call stack of fix_fields,   *)
(*          and what the calls did                                         *)
(***************************************************************************)
VARIABLES func, args, out, thd, tree, fixed, stack, log

evalVars == <<func, args, out, thd>>

treeVars == <<tree, fixed, stack, log>>

vars == <<func, args, out, thd, tree, fixed, stack, log>>

\* largest div_precincrement the session takes
MaxPrecIncrement == 1

Sessions == [sql_mode : SqlModes, div_precincrement : {0, MaxPrecIncrement}]

NoFunc ==
  [op |-> "none", type |-> REAL_RESULT, decimals |-> 0, unsigned_flag |-> FALSE,
   prec_increment |-> 0, fixed |-> FALSE]

NoOut == [entry |-> "none", calls |-> <<>>, stores |-> {}, res |-> NullResult]

Pair(a0, a1) == [i \in {0, 1} |-> IF i = 0 THEN a0 ELSE a1]

Single(a0) == [i \in {0} |-> a0]

IntField(uns) == Item(INT_RESULT, INT_RESULT, uns, 0, ShortLength, FALSE, "FIELD_ITEM")
DecimalField(uns, dec, len) == Item(DECIMAL_RESULT, DECIMAL_RESULT, uns, dec, len, FALSE, "FIELD_ITEM")
RealField == Item(REAL_RESULT, REAL_RESULT, FALSE, NOT_FIXED_DEC, ShortLength, FALSE, "FIELD_ITEM")
StringField == Item(STRING_RESULT, STRING_RESULT, FALSE, NOT_FIXED_DEC, ShortLength, FALSE, "FIELD_ITEM")
\* a temporal operand compares as TIME_RESULT and has result_type STRING_RESULT
TemporalField(dec) == Item(TIME_RESULT, STRING_RESULT, FALSE, dec, ShortLength, FALSE, "FIELD_ITEM")
IntConst(uns, v, isnull) ==
  [Item(INT_RESULT, INT_RESULT, uns, 0, ShortLength, TRUE, "INT_ITEM") EXCEPT
     !.v = v, !.null_value = isnull]

\* the words an operand takes in the rows of the evaluations: 0, 1 and the
\* least signed word
EvalWords == {0, 1, LONGLONG_MIN}

\* the operands of the nodes that are evaluated
EvalItems ==
  {IntField(FALSE), IntField(TRUE), DecimalField(FALSE, OperandScale, ShortLength),
   RealField, StringField, TemporalField(0), TemporalField(OperandScale)}

UnaryItems == EvalItems \cup {DecimalField(FALSE, OperandScale, LongLength),
                              IntConst(FALSE, LONGLONG_MIN, FALSE)}

RoundDigits ==
  {IntField(FALSE), IntConst(FALSE, 1, FALSE), IntConst(FALSE, ULONGLONG_MAX, FALSE),
   IntConst(FALSE, 0, TRUE)}

Operands(op) ==
  CASE op \in BinaryHybridOps \cup {"int_div"} -> {Pair(a0, a1) : a0 \in EvalItems, a1 \in EvalItems}
    [] op \in UnaryHybridOps -> {Single(a0) : a0 \in UnaryItems}
    [] op \in RoundOps ->
         {Pair(a0, a1) : a0 \in {a \in EvalItems : a.cit # TIME_RESULT}, a1 \in RoundDigits}

\* fix_length_and_dec of the node's class; Item_func_div reads the session's
\* div_precincrement, Item_func_minus its sql_mode
fix_length_and_dec(op, a, session) ==
  CASE op = "plus" -> Item_num_op_fix_length_and_dec("plus", a, 0)
    [] op = "minus" -> Item_func_minus_fix_length_and_dec(a, session.sql_mode)
    [] op = "mul" -> Item_num_op_fix_length_and_dec("mul", a, 0)
    [] op = "div" -> Item_func_div_fix_length_and_dec(a, session.div_precincrement)
    [] op = "mod" -> Item_func_mod_fix_length_and_dec(a)
    [] op = "int_div" -> Item_func_int_div_fix_length_and_dec(a)
    [] op = "neg" -> Item_func_neg_fix_length_and_dec(a)
    [] op = "abs" -> Item_func_abs_fix_length_and_dec(a)
    [] op \in {"ceiling", "floor"} -> Item_func_int_val_fix_length_and_dec(a)
    [] op \in RoundOps -> Item_func_round_fix_length_and_dec(a, op = "truncate")

\* Item_func::fix_fields of a node whose operands are resolved: it runs
\* fix_length_and_dec and sets fixed
Resolved(op, a, session) ==
  LET t == fix_length_and_dec(op, a, session)
  IN  [op |-> op, type |-> t.type, decimals |-> t.decimals, unsigned_flag |-> t.unsigned_flag,
       prec_increment |-> IF op = "div" THEN session.div_precincrement ELSE 0,
       fixed |-> TRUE]

\* the values of a row for the operands that are not constants
Values == {[v |-> w, null_value |-> FALSE] : w \in EvalWords} \cup {[v |-> 0, null_value |-> TRUE]}

WithValue(item, x) ==
  IF item.const_item THEN item ELSE [item EXCEPT !.v = x.v, !.null_value = x.null_value]

Rows(a) ==
  {[i \in DOMAIN a |-> WithValue(a[i], x[i])] : x \in [DOMAIN a -> Values]}

\* the evaluation calls a primitive of the decimal library
UsesDecimal(f, a) ==
  \/ f.op \in HybridOps /\ f.type = DECIMAL_RESULT /\ f.op \notin {"neg", "abs"}
  \/ f.op \in {"ceiling", "floor"} /\ f.type = INT_RESULT /\ a[0].rt = DECIMAL_RESULT
  \/ f.op = "int_div" /\ (a[0].rt # INT_RESULT \/ a[1].rt # INT_RESULT)

Statuses(f, a) == IF UsesDecimal(f, a) THEN DecimalStatuses(f.op, a) ELSE {E_DEC_OK}

\* no tree is being resolved
TreeIdle ==
  /\ tree = <<>>
  /\ fixed = <<>>
  /\ stack = <<>>
  /\ log = <<>>

Init ==
  /\ func = NoFunc
  /\ args = Pair(IntField(FALSE), IntField(FALSE))
  /\ out = NoOut
  /\ thd \in Sessions
  /\ TreeIdle

\* Item_func::fix_fields on the node, its operands already resolved
fix_fields ==
  /\ ~func.fixed
  /\ \E op \in HybridOps \cup {"int_div"} :
       \E a \in Operands(op) :
         /\ func' = Resolved(op, a, thd)
         /\ args' = a
  /\ UNCHANGED <<out, thd, treeVars>>

\* the session changes sql_mode or div_precincrement between two calls
set_session ==
  /\ \E s \in Sessions \ {thd} : thd' = s
  /\ out' = NoOut
  /\ UNCHANGED <<func, args, treeVars>>

\* the operands take the values of another row
next_row ==
  /\ func.fixed
  /\ \E a \in Rows(args) \ {args} : args' = a
  /\ out' = NoOut
  /\ UNCHANGED <<func, thd, treeVars>>

Evaluate(entry) ==
  /\ func.fixed
  /\ func.op \in HybridOps
  /\ \E st \in Statuses(func, args) :
       LET r == Item_func_hybrid_field_type_dispatch(func, args, thd.sql_mode, st)
           stores == Stores(func, r.calls)
       IN  /\ out' = [entry |-> entry, calls |-> r.calls, stores |-> stores, res |-> r.res]
           /\ func' = AfterEvaluation(func, stores)
  /\ UNCHANGED <<args, thd, treeVars>>

Item_func_hybrid_field_type_val_int == Evaluate("val_int")

Item_func_hybrid_field_type_val_real == Evaluate("val_real")

Item_func_hybrid_field_type_val_decimal == Evaluate("val_decimal")

Item_func_hybrid_field_type_val_str == Evaluate("val_str")

Item_func_int_div_val_int_call ==
  /\ func.fixed
  /\ func.op = "int_div"
  /\ \E st \in Statuses(func, args) :
       out' = [entry |-> "val_int", calls |-> <<"val_int">>, stores |-> {},
               res |-> Item_func_int_div_val_int(args, func.unsigned_flag, st, thd.sql_mode)]
  /\ UNCHANGED <<func, args, thd, treeVars>>

Next ==
  \/ fix_fields
  \/ set_session
  \/ next_row
  \/ Item_func_hybrid_field_type_val_int
  \/ Item_func_hybrid_field_type_val_real
  \/ Item_func_hybrid_field_type_val_decimal
  \/ Item_func_hybrid_field_type_val_str
  \/ Item_func_int_div_val_int_call

Spec == Init /\ [][Next]_vars

(***************************************************************************)
(* Integer arithmetic over the whole word range.  The node is resolved     *)
(* over two non-NULL operands holding any two words; the operands are      *)
(* integer columns of either signedness, or an unsigned integer and a      *)
(* temporal column without fractional digits (the node is then signed      *)
(* over an unsigned operand).                                              *)
(***************************************************************************)
IntOps == {"plus", "minus", "mul", "int_div"}

IntOperands(op) ==
  {Pair(IntField(u0), IntField(u1)) : u0 \in BOOLEAN, u1 \in BOOLEAN}
  \cup (IF op = "int_div" THEN {}
        ELSE {Pair(TemporalField(0), IntField(TRUE)), Pair(IntField(TRUE), TemporalField(0))})

IntSessions == [sql_mode : SUBSET {MODE_NO_UNSIGNED_SUBTRACTION}, div_precincrement : {0}]

InitInt ==
  /\ \E op \in IntOps :
       \E a \in IntOperands(op) :
         \E s \in IntSessions :
           \E v0 \in Words, v1 \in Words :
             LET row == Pair([a[0] EXCEPT !.v = v0], [a[1] EXCEPT !.v = v1])
             IN  /\ func = Resolved(op, row, s)
                 /\ args = row
                 /\ thd = s
  /\ out = NoOut
  /\ TreeIdle

NextInt ==
  \/ Item_func_hybrid_field_type_val_int
  \/ Item_func_int_div_val_int_call

SpecInt == InitInt /\ [][NextInt]_vars

\* the numbers the two operands of the current row stand for
Operand(i) == Interp(args[i].v, args[i].unsigned_flag)

\* the number the last result stands for in the node's signedness
Returned == Interp(out.res.v, func.unsigned_flag)

\* the last evaluation was the integer evaluator of operator op on two
\* non-NULL operands
IntEvaluated(op) ==
  /\ func.op = op
  /\ func.type = INT_RESULT
  /\ out.entry # "none"
  /\ ~args[0].null_value /\ ~args[1].null_value

\* the last evaluation returned exactly m when m is representable in the
\* node's signedness, and the overflow outcome otherwise
ExactOrOverflow(m) ==
  IF Representable(m, func.unsigned_flag)
  THEN ~out.res.overflow /\ ~out.res.null_value /\ Returned = m
  ELSE out.res.overflow

\* C1: integer + returns exactly a+b when the sum is representable in the
\* node's signedness and the overflow outcome otherwise, for every pair of
\* words and every combination of operand signedness.
C1_PlusExactOrOverflow ==
  IntEvaluated("plus") => ExactOrOverflow(Operand(0) + Operand(1))

\* signed LONGLONG_MAX + 1 was evaluated and gave the overflow outcome
C1_Witness ==
  /\ IntEvaluated("plus")
  /\ ~args[0].unsigned_flag /\ ~args[1].unsigned_flag
  /\ args[0].v = LONGLONG_MAX /\ args[1].v = 1
  /\ out.res.overflow

\* C2: integer - returns exactly a-b when the difference is representable
\* in the node's signedness and the overflow outcome otherwise; a value
\* other than a-b is never returned.
C2_MinusExactOrOverflow ==
  IntEvaluated("minus") => ExactOrOverflow(Operand(0) - Operand(1))

\* C3: integer * returns exactly a*b when the product is representable in
\* the node's signedness and the overflow outcome otherwise; a product of
\* operands of opposite sign below LONGLONG_MIN gives the overflow outcome.
C3_MulExactOrOverflow ==
  IntEvaluated("mul") => ExactOrOverflow(Operand(0) * Operand(1))

\* C4: integer DIV with a non-zero divisor returns the quotient truncated
\* toward zero, and the overflow outcome when that quotient is not
\* representable (signed LONGLONG_MIN DIV -1).
C4_IntDivTruncates ==
  (/\ func.op = "int_div"
   /\ out.entry # "none"
   /\ args[1].v # 0)
  => ExactOrOverflow(TruncDiv(Operand(0), Operand(1)))

(***************************************************************************)
(* Item_func::fix_fields and Item_func::quick_fix_field on a tree.         *)
(* Every node is an Item_func; a leaf has arg_count 0.  tree[n] is the     *)
(* sequence of the operands of node n, fixed[n] its fixed flag.  A frame   *)
(* of stack is a call of fix_fields in progress: its node, the index of    *)
(* the operand its loop is at, and whether the loop is before the          *)
(* operand's fix_fields ("fix") or before its check_cols ("cols").         *)
(* check_stack_overrun, check_cols and fix_length_and_dec can each fail.   *)
(* log keeps what the calls did:                                           *)
(*   fld[n]     whether fix_length_and_dec of n ran, and how it ended      *)
(*   by[n]      the function that set fixed[n]                             *)
(*   early      the nodes whose fix_length_and_dec ran over an operand     *)
(*              that was not fixed                                         *)
(*   refixed    the operands fix_fields was invoked on while fixed         *)
(*   skipped    the operands the loop found fixed and passed over          *)
(*   ret        the last return of fix_fields: its node and its success    *)
(***************************************************************************)
\* number of nodes of the tree
TreeNodes == 4

Nodes == 1 .. TreeNodes

SortedSeq(S) ==
  CHOOSE q \in [1 .. Cardinality(S) -> S] : \A i, j \in 1 .. Cardinality(S) : i < j => q[i] < q[j]

\* the trees over Nodes with root 1: every other node is an operand of a
\* node of smaller number
TreeShapes ==
  {[n \in Nodes |-> SortedSeq({i \in 2 .. TreeNodes : p[i] = n})] :
     p \in {q \in [2 .. TreeNodes -> Nodes] : \A i \in 2 .. TreeNodes : q[i] < i}}

Range(q) == {q[i] : i \in DOMAIN q}

RECURSIVE Subtree(_, _)
Subtree(t, n) == {n} \cup UNION {Subtree(t, t[n][i]) : i \in DOMAIN t[n]}

\* the nodes a call of quick_fix_field on n sets fixed: n, and through
\* every operand that is not fixed
RECURSIVE Item_func_quick_fix_field(_, _, _)
Item_func_quick_fix_field(t, fx, n) ==
  {n} \cup UNION {Item_func_quick_fix_field(t, fx, t[n][i]) : i \in {j \in DOMAIN t[n] : ~fx[t[n][j]]}}

\* the loop of fix_fields calls the operand's fix_fields always
fix_fields_on_operand_always(arg_fixed) == TRUE

\* the loop of fix_fields calls the operand's fix_fields: !(*arg)->fixed
fix_fields_on_operand(arg_fixed) == ~arg_fixed

NoReturn == [node |-> 0, ok |-> FALSE]

InitFix ==
  /\ func = NoFunc
  /\ args = Pair(IntField(FALSE), IntField(FALSE))
  /\ out = NoOut
  /\ thd = [sql_mode |-> {}, div_precincrement |-> 0]
  /\ tree \in TreeShapes
  /\ fixed = [n \in Nodes |-> FALSE]
  /\ stack = <<>>
  /\ log = [fld |-> [n \in Nodes |-> "none"], by |-> [n \in Nodes |-> "none"],
            early |-> {}, refixed |-> {}, skipped |-> {}, ret |-> NoReturn]

Frame(n) == [node |-> n, arg |-> 1, at |-> "fix"]

Top == stack[Len(stack)]

\* a failing return that leaves the node of the top frame marked fixed
ReturnErrorAfterFixed ==
  /\ stack' = <<>>
  /\ fixed' = [fixed EXCEPT ![Top.node] = TRUE]

\* fix_fields of the top frame returns TRUE: every caller returns TRUE too
ReturnError ==
  /\ stack' = <<>>
  /\ fixed' = fixed

\* fix_fields of the top frame returns FALSE to its caller, whose loop goes
\* on with check_cols of the operand
ReturnOk ==
  stack' = IF Len(stack) = 1 THEN <<>>
           ELSE SubSeq(stack, 1, Len(stack) - 2)
                \o <<[stack[Len(stack) - 1] EXCEPT !.at = "cols"]>>

\* a caller invokes fix_fields on a node that is not fixed
\* (DBUG_ASSERT(fixed == 0)); check_stack_overrun can make it return TRUE
fix_fields_enter ==
  /\ stack = <<>>
  /\ \E n \in Nodes :
       /\ ~fixed[n]
       /\ \E overrun \in BOOLEAN :
            IF overrun
            THEN /\ stack' = <<>>
                 /\ log' = [log EXCEPT !.ret = [node |-> n, ok |-> FALSE]]
            ELSE /\ stack' = <<Frame(n)>>
                 /\ log' = [log EXCEPT !.ret = NoReturn]
  /\ UNCHANGED <<fixed, tree, evalVars>>

\* the loop over the operands, at "if (!(*arg)->fixed && (*arg)->fix_fields(thd, arg))"
fix_fields_arg ==
  /\ stack # <<>>
  /\ Top.at = "fix"
  /\ Top.arg <= Len(tree[Top.node])
  /\ LET c == tree[Top.node][Top.arg]
     IN  IF fix_fields_on_operand(fixed[c])
         THEN \E overrun \in BOOLEAN :
                IF overrun
                THEN /\ stack' = <<>>
                     /\ log' = [log EXCEPT !.ret = [node |-> stack[1].node, ok |-> FALSE],
                                           !.refixed = IF fixed[c] THEN @ \cup {c} ELSE @]
                ELSE /\ stack' = Append(stack, Frame(c))
                     /\ log' = [log EXCEPT !.refixed = IF fixed[c] THEN @ \cup {c} ELSE @]
         ELSE /\ stack' = [stack EXCEPT ![Len(stack)].at = "cols"]
              /\ log' = [log EXCEPT !.skipped = @ \cup {c}]
  /\ UNCHANGED <<fixed, tree, evalVars>>

\* the loop over the operands, at check_cols, which can fail
fix_fields_check_cols ==
  /\ stack # <<>>
  /\ Top.at = "cols"
  /\ \E failed \in BOOLEAN :
       IF failed
       THEN /\ stack' = <<>>
            /\ log' = [log EXCEPT !.ret = [node |-> stack[1].node, ok |-> FALSE]]
       ELSE /\ stack' = [stack EXCEPT ![Len(stack)] = [@ EXCEPT !.arg = @ + 1, !.at = "fix"]]
            /\ log' = log
  /\ UNCHANGED <<fixed, tree, evalVars>>

\* after the loop: "if (fix_length_and_dec()) return TRUE; fixed= 1; return FALSE;"
fix_fields_fix_length_and_dec ==
  /\ stack # <<>>
  /\ Top.at = "fix"
  /\ Top.arg > Len(tree[Top.node])
  /\ LET n == Top.node
         early == IF \E c \in Range(tree[n]) : ~fixed[c] THEN {n} ELSE {}
     IN  \E failed \in BOOLEAN :
           IF failed
           THEN /\ ReturnError
                /\ log' = [log EXCEPT !.fld[n] = "failed", !.early = @ \cup early,
                                      !.ret = [node |-> stack[1].node, ok |-> FALSE]]
           ELSE /\ ReturnOk
                /\ fixed' = [fixed EXCEPT ![n] = TRUE]
                /\ log' = [log EXCEPT !.fld[n] = "ok", !.early = @ \cup early,
                                      !.by[n] = "fix_fields",
                                      !.ret = [node |-> n, ok |-> TRUE]]
  /\ UNCHANGED <<tree, evalVars>>

\* a caller invokes quick_fix_field on a node
quick_fix_field ==
  /\ stack = <<>>
  /\ \E n \in Nodes :
       /\ ~fixed[n]
       /\ LET done == Item_func_quick_fix_field(tree, fixed, n)
          IN  /\ fixed' = [m \in Nodes |-> fixed[m] \/ m \in done]
              /\ log' = [log EXCEPT !.by = [m \in Nodes |-> IF m \in done THEN "quick_fix_field"
                                                         ELSE @[m]]]
  /\ UNCHANGED <<stack, tree, evalVars>>

NextFix ==
  \/ fix_fields_enter
  \/ fix_fields_arg
  \/ fix_fields_check_cols
  \/ fix_fields_fix_length_and_dec
  \/ quick_fix_field

SpecFix == InitFix /\ [][NextFix]_vars

(***************************************************************************)
(* Properties of the evaluations (specification Spec).                     *)
(***************************************************************************)
DivisionOps == {"div", "mod", "int_div"}

BinaryOps == BinaryHybridOps \cup {"int_div"}

Evaluated == func.fixed /\ out.entry # "none"

StrictDivision == MODE_ERROR_FOR_DIVISION_BY_ZERO \in thd.sql_mode

\* the evaluator of the domain the last evaluation of a division ran in
DivisionPath ==
  IF func.op = "int_div"
  THEN (IF args[0].rt = INT_RESULT /\ args[1].rt = INT_RESULT THEN "int" ELSE "decimal")
  ELSE CASE func.type = INT_RESULT -> "int"
         [] func.type = REAL_RESULT -> "real"
         [] func.type = DECIMAL_RESULT -> "decimal"

\* the last evaluation divided two non-NULL operands by zero
DividedByZero ==
  /\ Evaluated
  /\ func.op \in DivisionOps
  /\ ~args[0].null_value /\ ~args[1].null_value
  /\ args[1].v = 0

\* C5: a division (/, DIV, %) of two non-NULL operands by zero, in every
\* domain, gives NULL, raises no error, and pushes the division-by-zero
\* warning exactly when MODE_ERROR_FOR_DIVISION_BY_ZERO is set at the time
\* of the evaluation.
C5_DivisionByZeroIsNull ==
  DividedByZero =>
    /\ out.res.null_value
    /\ ~out.res.overflow
    /\ out.res.warned <=> StrictDivision

\* a decimal % divided by zero under the strict mode and pushed the warning
C5_Witness ==
  /\ DividedByZero
  /\ func.op = "mod"
  /\ DivisionPath = "decimal"
  /\ StrictDivision
  /\ out.res.null_value /\ out.res.warned

\* C6: a binary arithmetic operator with a NULL operand gives NULL, and
\* neither the overflow outcome nor a division-by-zero warning, whatever
\* the other operand is.
C6_NullShortCircuit ==
  (/\ Evaluated
   /\ func.op \in BinaryOps
   /\ args[0].null_value \/ args[1].null_value)
  => (out.res.null_value /\ ~out.res.overflow /\ ~out.res.warned)

\* NULL / 0 was evaluated in the real domain under the strict mode
C6_Witness ==
  /\ Evaluated
  /\ func.op = "div" /\ func.type = REAL_RESULT
  /\ args[0].null_value /\ ~args[1].null_value /\ args[1].v = 0
  /\ StrictDivision
  /\ out.res.null_value /\ ~out.res.warned

\* the resolved attributes of the node
ResolvedAttributes == <<func.type, func.decimals, func.unsigned_flag>>

\* C7 as stated: evaluation changes none of the resolved attributes of a
\* fixed node and stores to none of them (it writes only the transient
\* result and null_value).
C7_EvaluationStoresNoAttribute ==
  [][func.fixed => /\ ResolvedAttributes' = ResolvedAttributes
                   /\ out'.stores = {}]_vars

\* C7, amended: evaluation changes none of the resolved attributes of a
\* fixed node; the one store an evaluator makes to them is the "decimals= 0"
\* of the integer evaluator of ROUND and TRUNCATE, on a node whose decimals
\* are 0 already.
C7_EvaluationKeepsAttributes ==
  [][func.fixed => /\ ResolvedAttributes' = ResolvedAttributes
                   /\ out'.stores \subseteq {<<"decimals", func.decimals>>}
                   /\ out'.stores # {} => /\ func.op \in RoundOps
                                          /\ func.type = INT_RESULT
                                          /\ out'.calls = <<"int_op">>]_vars

\* ROUND over an integer was evaluated by int_op, which stored decimals
C7_Witness ==
  /\ Evaluated
  /\ func.op = "round"
  /\ func.type = INT_RESULT
  /\ out.stores = {<<"decimals", 0>>}
  /\ func.decimals = 0

\* the evaluator the switch on cmp_type() selects
Selected ==
  CASE func.type = INT_RESULT -> "int_op"
    [] func.type = REAL_RESULT -> "real_op"
    [] func.type = DECIMAL_RESULT -> "decimal_op"

HybridEvaluated == Evaluated /\ func.op \in HybridOps

\* C9 as stated: a call of val_int, val_real, val_decimal or val_str on a
\* hybrid node runs exactly one of int_op, real_op, decimal_op of the node:
\* the one of its resolved type.
C9_ExactlyOneEvaluator ==
  HybridEvaluated => out.calls = <<Selected>>

\* C9, amended: the call invokes the evaluator of the resolved type, and no
\* other evaluator of the node runs, except that int_op of CEILING and FLOOR
\* over an operand that is not an integer itself calls decimal_op of the
\* node (DECIMAL operand) or real_op of the node (any other operand), once.
C9_SelectedEvaluatorFirst ==
  HybridEvaluated =>
    IF func.op \in {"ceiling", "floor"} /\ func.type = INT_RESULT /\ args[0].rt # INT_RESULT
    THEN out.calls = <<"int_op", IF args[0].rt = DECIMAL_RESULT THEN "decimal_op" ELSE "real_op">>
    ELSE out.calls = <<Selected>>

\* FLOOR of a short fixed-point operand resolved to an integer: val_int ran
\* int_op, which ran decimal_op
C9_Witness ==
  /\ HybridEvaluated
  /\ func.op = "floor"
  /\ func.type = INT_RESULT
  /\ args[0].rt = DECIMAL_RESULT
  /\ out.calls = <<"int_op", "decimal_op">>

\* the operators whose result type is the one Item_num_op::fix_length_and_dec
\* leaves (Item_func_div::fix_length_and_dec turns INT_RESULT into
\* DECIMAL_RESULT afterwards)
NumOps == {"plus", "minus", "mul", "mod"}

Classifies(i, domains) == args[i].cit \in domains

\* the result domain the lattice gives for the operands
Lattice ==
  IF Classifies(0, {REAL_RESULT, STRING_RESULT}) \/ Classifies(1, {REAL_RESULT, STRING_RESULT})
  THEN REAL_RESULT
  ELSE IF Classifies(0, {DECIMAL_RESULT, TIME_RESULT}) \/ Classifies(1, {DECIMAL_RESULT, TIME_RESULT})
  THEN DECIMAL_RESULT
  ELSE INT_RESULT

\* C10 as stated: the result type of a binary arithmetic node is the one
\* the lattice gives; a + or * node with a temporal operand and no real or
\* string operand is DECIMAL_RESULT.
C10_LatticeOnly ==
  (func.fixed /\ func.op \in NumOps) => func.type = Lattice

\* the lattice gives DECIMAL_RESULT, an operand is temporal, and the scale
\* computed for the node is 0
TemporalDowngrade ==
  /\ Lattice = DECIMAL_RESULT
  /\ Classifies(0, {TIME_RESULT}) \/ Classifies(1, {TIME_RESULT})
  /\ func.decimals = 0

\* C10, amended: the result type is the one the lattice gives, except that
\* a node of any operator (+, -, *, %) for which the lattice gives
\* DECIMAL_RESULT, with a temporal operand and a computed scale of 0, is
\* INT_RESULT; for / the lattice holds without exception, INT_RESULT
\* replaced by DECIMAL_RESULT.
C10_LatticeWithTemporalDowngrade ==
  /\ (func.fixed /\ func.op \in NumOps) =>
       func.type = IF TemporalDowngrade THEN INT_RESULT ELSE Lattice
  /\ (func.fixed /\ func.op = "div") =>
       func.type = IF Lattice = INT_RESULT THEN DECIMAL_RESULT ELSE Lattice

\* a + node over a temporal operand without fractional digits and an
\* integer resolved to INT_RESULT
C10_Witness ==
  /\ func.fixed
  /\ func.op = "plus"
  /\ Classifies(0, {TIME_RESULT}) /\ Classifies(1, {INT_RESULT})
  /\ func.type = INT_RESULT

(***************************************************************************)
(* Properties of the resolution of a tree (specification SpecFix).         *)
(***************************************************************************)
\* C8: when fix_fields returns success its node and every operand below it
\* are fixed; no fix_length_and_dec ran over an operand that was not fixed;
\* fix_fields sets fixed only after fix_length_and_dec of the node
\* succeeded; and fix_fields is never invoked on an operand that is fixed.
C8_ResolutionOrder ==
  /\ log.ret.ok => \A n \in Subtree(tree, log.ret.node) : fixed[n]
  /\ log.early = {}
  /\ \A n \in Nodes : log.by[n] = "fix_fields" => log.fld[n] = "ok"
  /\ log.refixed = {}

\* fix_fields returned success on the root of a tree of depth two, after
\* resolving one operand and passing over another that was fixed already
C8_Witness ==
  /\ log.ret = [node |-> 1, ok |-> TRUE]
  /\ \E c \in Range(tree[1]) : tree[c] # <<>>
  /\ \E c \in Range(tree[1]) : c \in log.skipped
  /\ \E c \in Range(tree[1]) : log.by[c] = "fix_fields" /\ c \notin log.skipped
  /\ log.by[1] = "fix_fields"

(***************************************************************************)
(* Resolution over operands of every precision.  The node starts with its  *)
(* operator and operands, not resolved; Item_func::fix_fields resolves it  *)
(* under the session.  Besides the attributes of Attrs the node keeps the  *)
(* max_length that result_precision() leaves in a node of the integer or   *)
(* fixed-point domain (0 stands for the length float_length() gives a      *)
(* REAL_RESULT node, which is not tracked).                                *)
(***************************************************************************)
my_decimal_precision_to_length_no_truncation(precision, scale, unsigned_flag) ==
  precision + (IF scale > 0 THEN 1 ELSE 0) + (IF unsigned_flag \/ precision = 0 THEN 0 ELSE 1)

\* max_length left by result_precision() of +, -, * and %
result_precision_max_length(op, type, a) ==
  LET p == result_precision(op, type, a, 0)
      arg1_int == decimal_precision(a[0]) - decimal_scale(a[0])
      arg2_int == decimal_precision(a[1]) - decimal_scale(a[1])
      est_prec == decimal_precision(a[0]) + decimal_precision(a[1])
      precision ==
        CASE op \in {"plus", "minus"} -> Max(arg1_int, arg2_int) + 1 + p.decimals
          [] op = "mul" -> Min(est_prec, DECIMAL_MAX_PRECISION)
          [] op = "mod" -> Max(decimal_precision(a[0]), decimal_precision(a[1]))
  IN  my_decimal_precision_to_length_no_truncation(precision, p.decimals, p.unsigned_flag)

\* max_length left by fix_length_and_dec of +, -, *, % and NEG
fix_length_and_dec_max_length(op, a) ==
  LET r0 == a[0].cit
  IN  IF op = "neg"
      THEN a[0].max_length + 1
      ELSE LET r1 == a[1].cit
           IN  IF r0 = REAL_RESULT \/ r1 = REAL_RESULT \/ r0 = STRING_RESULT \/ r1 = STRING_RESULT
               THEN 0
               ELSE IF r0 = DECIMAL_RESULT \/ r1 = DECIMAL_RESULT
                       \/ r0 = TIME_RESULT \/ r1 = TIME_RESULT
               THEN result_precision_max_length(op, DECIMAL_RESULT, a)
               ELSE result_precision_max_length(op, INT_RESULT, a)

\* the operators whose resolution is examined over every operand
ResOps == {"plus", "minus", "mul", "mod", "neg"}

\* a fixed-point operand of the greatest precision
FullDecimal(uns, dec) ==
  DecimalField(uns, dec,
               my_decimal_precision_to_length_no_truncation(DECIMAL_MAX_PRECISION, dec, uns))

\* a constant operand that is not a literal (a function of constants)
FuncConst(uns, v) ==
  [Item(INT_RESULT, INT_RESULT, uns, 0, ShortLength, TRUE, "FUNC_ITEM") EXCEPT !.v = v]

ResItems ==
  {IntField(u) : u \in BOOLEAN}
  \cup {DecimalField(u, d, ShortLength) : u \in BOOLEAN, d \in {0, OperandScale}}
  \cup {FullDecimal(u, d) : u \in BOOLEAN, d \in {0, DECIMAL_MAX_SCALE}}
  \cup {RealField, StringField, TemporalField(0), TemporalField(OperandScale)}

NegItems ==
  ResItems
  \cup {IntConst(u, v, FALSE) : u \in BOOLEAN, v \in {1, LONGLONG_MAX, LONGLONG_MIN, ULONGLONG_MAX}}
  \cup {FuncConst(FALSE, LONGLONG_MIN), FuncConst(FALSE, 1)}

ResOperands(op) ==
  IF op = "neg"
  THEN {Single(a0) : a0 \in NegItems}
  ELSE {Pair(a0, a1) : a0 \in ResItems, a1 \in ResItems}

InitRes ==
  /\ \E op \in ResOps :
       /\ func = [NoFunc EXCEPT !.op = op]
       /\ args \in ResOperands(op)
  /\ out = NoOut
  /\ thd \in Sessions
  /\ TreeIdle

\* Item_func::fix_fields on the node: fix_length_and_dec under the session
Item_func_fix_fields ==
  /\ ~func.fixed
  /\ func.op \in ResOps
  /\ func' = Resolved(func.op, args, thd)
               @@ [max_length |-> fix_length_and_dec_max_length(func.op, args)]
  /\ UNCHANGED <<args, out, thd, treeVars>>

NextRes == Item_func_fix_fields

SpecRes == InitRes /\ [][NextRes]_vars

\* the node was resolved by Item_num_op::fix_length_and_dec
NumResolved == func.fixed /\ func.op \in NumOps

\* an operand is temporal
HasTemporal == Classifies(0, {TIME_RESULT}) \/ Classifies(1, {TIME_RESULT})

\* an operand is a fixed-point number
HasDecimal == Classifies(0, {DECIMAL_RESULT}) \/ Classifies(1, {DECIMAL_RESULT})

\* the scale result_precision() computes for the operands
ComputedScale ==
  IF func.op = "mul"
  THEN Min(decimal_scale(args[0]) + decimal_scale(args[1]), DECIMAL_MAX_SCALE)
  ELSE Max(decimal_scale(args[0]), decimal_scale(args[1]))

\* C11 as stated: a node for which the lattice gives DECIMAL_RESULT is
\* changed to INT_RESULT only when it is a subtraction, no operand is a
\* fixed-point number (the domain comes from temporal operands alone) and
\* the computed scale is 0; in every other case it stays DECIMAL_RESULT.
C11_DowngradeOnlyForMinus ==
  (NumResolved /\ Lattice = DECIMAL_RESULT) =>
    func.type = IF func.op = "minus" /\ ~HasDecimal /\ ComputedScale = 0
                THEN INT_RESULT
                ELSE DECIMAL_RESULT

\* C11, amended: a node of any of +, -, * and % for which the lattice gives
\* DECIMAL_RESULT is changed to INT_RESULT exactly when one of its operands
\* is temporal and the computed scale is 0, whether or not the other
\* operand is a fixed-point number; in every other case it stays
\* DECIMAL_RESULT.
C11_DowngradeForTemporalScaleZero ==
  (NumResolved /\ Lattice = DECIMAL_RESULT) =>
    /\ func.decimals = ComputedScale
    /\ func.type = IF HasTemporal /\ ComputedScale = 0 THEN INT_RESULT ELSE DECIMAL_RESULT

\* a * node over a temporal operand without fractional digits and a
\* fixed-point operand of scale 0 was resolved to INT_RESULT
C11_Witness ==
  /\ NumResolved
  /\ func.op = "mul"
  /\ Classifies(0, {TIME_RESULT}) /\ Classifies(1, {DECIMAL_RESULT})
  /\ func.type = INT_RESULT

\* the unsigned_flag result_precision() computed the node's max_length with
LengthUnsigned ==
  IF Lattice = INT_RESULT
  THEN args[0].unsigned_flag \/ args[1].unsigned_flag
  ELSE args[0].unsigned_flag /\ args[1].unsigned_flag

\* the precision the node's max_length stands for
EncodedPrecision ==
  my_decimal_length_to_precision(func.max_length, func.decimals, LengthUnsigned)

\* digits before the point of operand i
IntPart(i) == decimal_precision(args[i]) - decimal_scale(args[i])

\* C12: for + and - the resolved scale is max(s0,s1) and the resolved
\* precision is min(max(i0,i1) + 1 + scale, DECIMAL_MAX_PRECISION); for *
\* the scale is min(s0+s1, DECIMAL_MAX_SCALE) and the precision is
\* min(precision(op0) + precision(op1), DECIMAL_MAX_PRECISION); so the
\* precision the node's max_length stands for never exceeds
\* DECIMAL_MAX_PRECISION and the scale never exceeds DECIMAL_MAX_SCALE.
C12_PrecisionAndScaleBounded ==
  (/\ func.fixed
   /\ func.op \in {"plus", "minus", "mul"}
   /\ Lattice # REAL_RESULT)
  => /\ func.decimals = ComputedScale
     /\ EncodedPrecision =
          IF func.op = "mul"
          THEN Min(decimal_precision(args[0]) + decimal_precision(args[1]), DECIMAL_MAX_PRECISION)
          ELSE Min(Max(IntPart(0), IntPart(1)) + 1 + ComputedScale, DECIMAL_MAX_PRECISION)
     /\ EncodedPrecision <= DECIMAL_MAX_PRECISION
     /\ func.decimals <= DECIMAL_MAX_SCALE

EitherUnsigned == args[0].unsigned_flag \/ args[1].unsigned_flag

BothUnsigned == args[0].unsigned_flag /\ args[1].unsigned_flag

\* the session had MODE_NO_UNSIGNED_SUBTRACTION when the node was resolved
\* (the session of a resolved node of SpecRes is the one it was resolved in)
NoUnsignedSubtraction == MODE_NO_UNSIGNED_SUBTRACTION \in thd.sql_mode

NegatesLeastConstant ==
  /\ func.op = "neg"
  /\ args[0].cit = INT_RESULT
  /\ args[0].const_item
  /\ ~args[0].null_value
  /\ ~args[0].unsigned_flag
  /\ args[0].v = LONGLONG_MIN

\* C14: a resolved NEG node is signed, and over a constant integer operand
\* whose value is the least longlong it is DECIMAL_RESULT instead of
\* INT_RESULT.
C14_NegOfLeastIsDecimal ==
  (func.fixed /\ func.op = "neg") =>
    /\ ~func.unsigned_flag
    /\ NegatesLeastConstant => func.type = DECIMAL_RESULT

(***************************************************************************)
(* Functions over a list of operands: LEAST and GREATEST                   *)
(* (Item_func_min_max), FIELD (Item_func_field) and FIND_IN_SET            *)
(* (Item_func_find_in_set).  The node is resolved over its operands and    *)
(* then evaluated on a row.  A string value is a sequence of bytes; a      *)
(* temporal value is its packed longlong.  In a list of numeric operands   *)
(* integers of both signs, fixed-point numbers and doubles mix; strings    *)
(* and temporal operands come in lists of their own kind.                  *)
(***************************************************************************)
\* greatest number of operands of a list
MaxArgs == 3

\* greatest lengths of the strings FIND_IN_SET is evaluated on
MaxCsvLen == 4
MaxNeedleLen == 2

separator == 44

\* the bytes of the strings: the separator and two letters
Bytes == {separator, 97, 98}

\* Item::cmp_type of an operand
cmp_type(item) == item.cit

item_cmp_type(a, b) ==
  IF a = STRING_RESULT /\ b = STRING_RESULT THEN STRING_RESULT
  ELSE IF a = INT_RESULT /\ b = INT_RESULT THEN INT_RESULT
  ELSE IF a = TIME_RESULT \/ b = TIME_RESULT THEN TIME_RESULT
  ELSE IF a \in {INT_RESULT, DECIMAL_RESULT} /\ b \in {INT_RESULT, DECIMAL_RESULT}
  THEN DECIMAL_RESULT
  ELSE REAL_RESULT

\* item_cmp_type folded over the operands 0 .. i, as the loops of
\* fix_length_and_dec do
RECURSIVE agg_cmp_type(_, _, _)
agg_cmp_type(a, i, kind) ==
  IF i = 0 THEN a[0][kind]
  ELSE item_cmp_type(agg_cmp_type(a, i - 1, kind), a[i][kind])

arg_count(a) == Cardinality(DOMAIN a)

\* sortcmp under a binary collation: the order of the first differing
\* byte, a proper prefix being the smaller
sortcmp(s, t) ==
  LET n == Min(Len(s), Len(t))
      diff == {i \in 1 .. n : s[i] # t[i]}
      first == CHOOSE i \in diff : \A j \in diff : i <= j
  IN  IF diff # {} THEN (IF s[first] < t[first] THEN 0 - 1 ELSE 1)
      ELSE IF Len(s) < Len(t) THEN 0 - 1
      ELSE IF Len(s) > Len(t) THEN 1
      ELSE 0

\* the type and unsigned_flag Item_func_min_max::fix_length_and_dec leaves:
\* type is cmp_type() of the node
Item_func_min_max_fix_length_and_dec(a) ==
  LET n == arg_count(a)
      unsigned_count == Cardinality({i \in DOMAIN a : a[i].unsigned_flag})
      tmp_cmp_type == agg_cmp_type(a, n - 1, "cit")
      unsigned_flag == unsigned_count = n
  IN  CASE tmp_cmp_type = INT_RESULT ->
             IF unsigned_count # 0 /\ unsigned_count # n
             THEN [type |-> DECIMAL_RESULT, unsigned_flag |-> unsigned_flag]
             ELSE [type |-> INT_RESULT, unsigned_flag |-> unsigned_flag]
        [] OTHER -> [type |-> tmp_cmp_type, unsigned_flag |-> unsigned_flag]

\* the value of operand item for the loop of the entry point: val_int(),
\* val_real(), val_decimal(), val_str(), val_temporal_packed()
min_max_value(entry, item) ==
  CASE entry = "val_int" -> item.v
    [] entry = "val_real" -> val_real(item)
    [] entry = "val_decimal" -> val_decimal(item)
    [] entry = "val_str" -> item.v
    [] entry = "get_date" -> ToSigned(item.v)

\* the test of the loop of the entry point that makes tmp the new extreme
min_max_replaces(entry, cmp_sign, tmp, value) ==
  CASE entry = "val_int" ->
         (IF ToSigned(tmp) < ToSigned(value) THEN cmp_sign ELSE 0 - cmp_sign) > 0
    [] entry = "val_real" -> (IF tmp < value THEN cmp_sign ELSE 0 - cmp_sign) > 0
    [] entry = "val_decimal" ->
         (IF tmp < value THEN 0 - 1 ELSE IF tmp > value THEN 1 ELSE 0) * cmp_sign < 0
    [] entry = "val_str" ->
         (IF cmp_sign < 0 THEN sortcmp(value, tmp) ELSE 0 - sortcmp(value, tmp)) < 0
    [] entry = "get_date" -> (IF tmp < value THEN cmp_sign ELSE 0 - cmp_sign) > 0

\* a loop that goes on after an operand that is NULL
min_max_stops_never(arg_null_value) == FALSE

\* the loops stop at an operand that is NULL:
\* "if ((null_value= args[i]->null_value)) break;"
min_max_stops(arg_null_value) == arg_null_value

\* the loop of an entry point from operand i on: value is the extreme of
\* the operands before i, calls the operands evaluated so far
RECURSIVE Item_func_min_max_loop(_, _, _, _, _, _)
Item_func_min_max_loop(entry, a, cmp_sign, i, value, calls) ==
  IF i = arg_count(a)
  THEN [res |-> Value(value), calls |-> calls]
  ELSE LET tmp == min_max_value(entry, a[i])
           next == IF i = 0 THEN tmp
                   ELSE IF ~a[i].null_value /\ min_max_replaces(entry, cmp_sign, tmp, value)
                        THEN tmp
                        ELSE value
       IN  IF min_max_stops(a[i].null_value)
           THEN [res |-> NullResult, calls |-> Append(calls, i)]
           ELSE Item_func_min_max_loop(entry, a, cmp_sign, i + 1, next, Append(calls, i))

\* Item_func_min_max::val_str: get_date for a temporal node, else the loop
\* of the result type (val_string_from_int calls val_int, and so on)
Item_func_min_max_val_str(f, a) ==
  LET entry == CASE f.type = TIME_RESULT -> "get_date"
                 [] f.type = INT_RESULT -> "val_int"
                 [] f.type = DECIMAL_RESULT -> "val_decimal"
                 [] f.type = REAL_RESULT -> "val_real"
                 [] f.type = STRING_RESULT -> "val_str"
      r == Item_func_min_max_loop(entry, a, f.cmp_sign, 0, 0, <<>>)
  IN  [entry |-> entry, calls |-> r.calls, stores |-> {}, res |-> r.res]

\* cmp_type left by Item_func_field::fix_length_and_dec
Item_func_field_fix_length_and_dec(a) == agg_cmp_type(a, arg_count(a) - 1, "rt")

Item_func_field_val_int(field_cmp_type, a) ==
  LET found(i) ==
        CASE field_cmp_type = STRING_RESULT -> ~a[i].null_value /\ sortcmp(a[0].v, a[i].v) = 0
          [] field_cmp_type = INT_RESULT -> a[0].v = a[i].v /\ ~a[i].null_value
          [] field_cmp_type = DECIMAL_RESULT ->
               ~a[i].null_value /\ val_decimal(a[i]) = val_decimal(a[0])
          [] OTHER -> val_real(a[0]) = val_real(a[i]) /\ ~a[i].null_value
      hits == {i \in 1 .. arg_count(a) - 1 : found(i)}
  IN  IF a[0].null_value THEN Value(0)
      ELSE IF hits = {} THEN Value(0)
      ELSE Value(CHOOSE i \in hits : \A j \in hits : i <= j)

\* the while loop of Item_func_find_in_set::val_int under a one-byte
\* character set, where mb_wc reads one byte while str_end is before
\* real_end and fails at real_end; offsets count from 0
RECURSIVE find_in_set_loop(_, _, _, _, _, _)
find_in_set_loop(buffer, find, str_begin, str_end, position, wc) ==
  LET real_end == Len(buffer)
      substr_end == str_end + 1
      is_last_item == substr_end = real_end
  IN  IF str_end < real_end
      THEN LET wc_read == buffer[str_end + 1]
               is_separator == wc_read = separator
               item_end == IF is_last_item /\ ~is_separator THEN substr_end ELSE str_end
           IN  IF is_separator \/ is_last_item
               THEN (IF SubSeq(buffer, str_begin + 1, item_end) = find
                     THEN position + 1
                     ELSE find_in_set_loop(buffer, find, substr_end, substr_end,
                                           position + 1, wc_read))
               ELSE find_in_set_loop(buffer, find, str_begin, substr_end, position, wc_read)
      ELSE IF str_end - str_begin = 0 /\ Len(find) = 0 /\ wc = separator
           THEN position + 1
           ELSE 0

\* Item_func_find_in_set::val_int entering the loop only when the buffer is
\* longer than the needle
Item_func_find_in_set_val_int_longer_only(a) ==
  LET find == a[0].v
      buffer == a[1].v
  IN  IF a[0].null_value \/ a[1].null_value THEN NullResult
      ELSE IF Len(buffer) - Len(find) > 0
           THEN Value(find_in_set_loop(buffer, find, 0, 0, 0, 0))
           ELSE Value(0)

\* Item_func_find_in_set::val_int with enum_value 0; the lengths are far
\* below 2^31, where the cast to int of their difference is exact
Item_func_find_in_set_val_int(a) ==
  LET find == a[0].v
      buffer == a[1].v
  IN  IF a[0].null_value \/ a[1].null_value THEN NullResult
      ELSE IF Len(buffer) - Len(find) >= 0
           THEN Value(find_in_set_loop(buffer, find, 0, 0, 0, 0))
           ELSE Value(0)

\* the operands of the lists and the values of their rows
NumOperands ==
  {WithValue(item, x) :
     item \in {IntField(FALSE), IntField(TRUE),
               DecimalField(FALSE, OperandScale, ShortLength), RealField},
     x \in Values}

NullString == [StringField EXCEPT !.v = <<>>, !.null_value = TRUE]

StringOperand(s) == [StringField EXCEPT !.v = s]

StringOperands == {StringOperand(s) : s \in {<<97>>, <<98>>, <<97, 98>>}} \cup {NullString}

TemporalOperands == {WithValue(TemporalField(0), x) : x \in Values}

Lists(S, least, most) == UNION {[0 .. n - 1 -> S] : n \in least .. most}

Strings(n) == UNION {[1 .. k -> Bytes] : k \in 0 .. n}

FnOps == {"least", "greatest", "field", "find_in_set"}

FnOperands(op) ==
  CASE op \in {"least", "greatest"} ->
         Lists(NumOperands, 1, MaxArgs) \cup Lists(StringOperands, 1, MaxArgs)
         \cup Lists(TemporalOperands, 1, MaxArgs)
    [] op = "field" -> Lists(NumOperands, 2, MaxArgs) \cup Lists(StringOperands, 2, MaxArgs)
    [] op = "find_in_set" ->
         {Pair(a0, a1) :
            a0 \in {StringOperand(s) : s \in Strings(MaxNeedleLen)} \cup {NullString},
            a1 \in {StringOperand(s) : s \in Strings(MaxCsvLen)} \cup {NullString}}

\* the node after fix_fields: cmp_sign is 1 for LEAST and -1 for GREATEST
FnResolved(op, a) ==
  LET t == CASE op \in {"least", "greatest"} -> Item_func_min_max_fix_length_and_dec(a)
             [] op = "field" ->
                  [type |-> Item_func_field_fix_length_and_dec(a), unsigned_flag |-> FALSE]
             [] op = "find_in_set" -> [type |-> INT_RESULT, unsigned_flag |-> FALSE]
  IN  [op |-> op, type |-> t.type, decimals |-> 0, unsigned_flag |-> t.unsigned_flag,
       prec_increment |-> 0, fixed |-> TRUE,
       cmp_sign |-> IF op = "greatest" THEN 0 - 1 ELSE 1]

InitFn ==
  /\ \E op \in FnOps :
       \E a \in FnOperands(op) :
         /\ func = FnResolved(op, a)
         /\ args = a
  /\ out = NoOut
  /\ thd = [sql_mode |-> {}, div_precincrement |-> 0]
  /\ TreeIdle

Item_func_min_max_val_str_call ==
  /\ func.op \in {"least", "greatest"}
  /\ out' = Item_func_min_max_val_str(func, args)
  /\ UNCHANGED <<func, args, thd, treeVars>>

Item_func_field_val_int_call ==
  /\ func.op = "field"
  /\ out' = [entry |-> "val_int", calls |-> <<>>, stores |-> {},
             res |-> Item_func_field_val_int(func.type, args)]
  /\ UNCHANGED <<func, args, thd, treeVars>>

Item_func_find_in_set_val_int_call ==
  /\ func.op = "find_in_set"
  /\ out' = [entry |-> "val_int", calls |-> <<>>, stores |-> {},
             res |-> Item_func_find_in_set_val_int(args)]
  /\ UNCHANGED <<func, args, thd, treeVars>>

NextFn ==
  \/ Item_func_min_max_val_str_call
  \/ Item_func_field_val_int_call
  \/ Item_func_find_in_set_val_int_call

SpecFn == InitFn /\ [][NextFn]_vars

\* the last evaluation was one of LEAST or GREATEST
MinMaxEvaluated == func.op \in {"least", "greatest"} /\ out.entry # "none"

SomeNull == \E i \in DOMAIN args : args[i].null_value

\* C15: LEAST and GREATEST over operands of which one, at any position, is
\* NULL give NULL, in every comparison domain; NULL operands are never
\* skipped.
C15_MinMaxNullPropagates ==
  (MinMaxEvaluated /\ SomeNull) => out.res.null_value

\* LEAST over three integers of which only the last is NULL gave NULL
C15_Witness ==
  /\ MinMaxEvaluated
  /\ func.op = "least" /\ func.type = INT_RESULT
  /\ arg_count(args) = 3
  /\ ~args[0].null_value /\ ~args[1].null_value /\ args[2].null_value
  /\ out.res.null_value

\* what an operand stands for in the comparison domain of the node: in the
\* integer domain the number of its word in the node's signedness
DomainValue(item) ==
  CASE func.type = INT_RESULT -> Interp(item.v, func.unsigned_flag)
    [] func.type = REAL_RESULT -> val_real(item)
    [] func.type = DECIMAL_RESULT -> val_decimal(item)
    [] func.type = TIME_RESULT -> ToSigned(item.v)
    [] func.type = STRING_RESULT -> item.v

\* what the last result stands for in the comparison domain of the node
DomainResult ==
  IF func.type = INT_RESULT THEN Interp(out.res.v, func.unsigned_flag) ELSE out.res.v

\* the order of the comparison domain of the node
DomainLessEq(x, y) == IF func.type = STRING_RESULT THEN sortcmp(x, y) <= 0 ELSE x <= y

\* C16: LEAST and GREATEST over operands none of which is NULL return a
\* value equal to the least, respectively greatest, operand under the order
\* of the comparison domain; in the integer domain that is the numeric
\* order of the operands in the node's signedness, also when every operand
\* is unsigned and some are 2^63 or more.
C16_MinMaxIsExtreme ==
  (MinMaxEvaluated /\ ~SomeNull) =>
    /\ ~out.res.null_value
    /\ \E i \in DOMAIN args : DomainValue(args[i]) = DomainResult
    /\ \A i \in DOMAIN args :
         IF func.op = "least"
         THEN DomainLessEq(DomainResult, DomainValue(args[i]))
         ELSE DomainLessEq(DomainValue(args[i]), DomainResult)

\* the operands 0 .. n-1 in order
UpTo(n) == [i \in 1 .. n |-> i - 1]

NullPositions == {i \in DOMAIN args : args[i].null_value}

\* the number of operands up to and including the first that is NULL, or
\* of all the operands when none is
ThroughFirstNull ==
  IF NullPositions = {} THEN arg_count(args)
  ELSE (CHOOSE i \in NullPositions : \A j \in NullPositions : i <= j) + 1

\* C17 as stated: one evaluation of LEAST or GREATEST evaluates every
\* operand exactly once, from left to right, whatever the values of the
\* operands are (also when an earlier operand is NULL).
C17_EveryOperandEvaluatedOnce ==
  MinMaxEvaluated => out.calls = UpTo(arg_count(args))

\* C17, amended: one evaluation of LEAST or GREATEST evaluates the operands
\* from left to right, each at most once, and stops at the first operand
\* that is NULL: the operands after it are not evaluated.  When no operand
\* is NULL every operand is evaluated exactly once.
C17_OperandsEvaluatedThroughFirstNull ==
  MinMaxEvaluated => out.calls = UpTo(ThroughFirstNull)

\* GREATEST over three doubles of which the first is NULL evaluated the
\* first operand only
C17_Witness ==
  /\ MinMaxEvaluated
  /\ func.op = "greatest" /\ func.type = REAL_RESULT
  /\ arg_count(args) = 3
  /\ args[0].null_value /\ ~args[1].null_value
  /\ out.calls = <<0>>

\* the last evaluation was one of FIELD
FieldEvaluated == func.op = "field" /\ out.entry # "none"

\* operand i is not NULL and equal to the needle in the comparison domain of
\* the node; integers are equal when they are the same number
EqualsNeedle(i) ==
  /\ ~args[i].null_value
  /\ CASE func.type = INT_RESULT ->
            Interp(args[i].v, args[i].unsigned_flag) = Interp(args[0].v, args[0].unsigned_flag)
       [] func.type = DECIMAL_RESULT -> val_decimal(args[i]) = val_decimal(args[0])
       [] func.type = REAL_RESULT -> val_real(args[i]) = val_real(args[0])
       [] func.type = STRING_RESULT -> args[i].v = args[0].v

\* the haystack entries equal to the needle
NeedlePositions == {i \in 1 .. arg_count(args) - 1 : EqualsNeedle(i)}

\* C18: FIELD returns the least 1-based index of a haystack entry that is
\* not NULL and equal to the needle in the comparison domain, and 0 when
\* there is none or the needle is NULL; the result is never NULL.  In the
\* integer domain equal means numerically equal, also when the needle and
\* the entry differ in signedness.
C18_FieldIsFirstEqual ==
  FieldEvaluated =>
    /\ ~out.res.null_value
    /\ out.res.v = IF args[0].null_value \/ NeedlePositions = {} THEN 0
                   ELSE CHOOSE i \in NeedlePositions : \A j \in NeedlePositions : i <= j

\* the last evaluation was one of FIND_IN_SET
FindInSetEvaluated == func.op = "find_in_set" /\ out.entry # "none"

\* the positions of the separators of string s, and the tokens between them:
\* token k lies after separator k-1 and before separator k
SeparatorsBefore(s, i) == Cardinality({j \in 1 .. i - 1 : s[j] = separator})

TokenCount(s) == SeparatorsBefore(s, Len(s) + 1) + 1

Token(s, k) ==
  LET from == IF k = 1 THEN 1
              ELSE 1 + CHOOSE i \in 1 .. Len(s) :
                         s[i] = separator /\ SeparatorsBefore(s, i) = k - 2
      to == IF k = TokenCount(s) THEN Len(s)
            ELSE (CHOOSE i \in 1 .. Len(s) :
                    s[i] = separator /\ SeparatorsBefore(s, i) = k - 1) - 1
  IN  SubSeq(s, from, to)

\* the position of the first of the first n tokens of csv equal to needle,
\* or 0
FirstToken(needle, csv, n) ==
  LET hits == {k \in 1 .. n : Token(csv, k) = needle}
  IN  IF hits = {} THEN 0 ELSE CHOOSE k \in hits : \A j \in hits : k <= j

FindInSetNull == args[0].null_value \/ args[1].null_value

\* C19 as stated: FIND_IN_SET returns NULL iff an argument is NULL, and
\* otherwise, for every needle and csv, the 1-based position of the first
\* comma-separated token of csv equal to needle, or 0 when no token is.
C19_FindInSetFirstToken ==
  FindInSetEvaluated =>
    /\ out.res.null_value <=> FindInSetNull
    /\ ~FindInSetNull => out.res.v = FirstToken(args[0].v, args[1].v, TokenCount(args[1].v))

\* C19, amended: as stated, with an empty csv holding no token at all: the
\* result is 0 for it whatever the needle is, the empty needle included.
C19_FindInSetFirstTokenOfNonEmpty ==
  FindInSetEvaluated =>
    /\ out.res.null_value <=> FindInSetNull
    /\ ~FindInSetNull =>
         out.res.v = FirstToken(args[0].v, args[1].v,
                                IF args[1].v = <<>> THEN 0 ELSE TokenCount(args[1].v))

\* the empty needle was found as the last token of a csv ending in a
\* separator
C19_Witness ==
  /\ FindInSetEvaluated
  /\ ~FindInSetNull
  /\ args[0].v = <<>>
  /\ args[1].v = <<97, separator, 98, separator>>
  /\ out.res.v = 3

(***************************************************************************)
(* ROUND and TRUNCATE over their own result.  The node is resolved over a  *)
(* column of the integer or real domain and a constant number of digits    *)
(* and evaluated on a row; a second node of the same operator and the same *)
(* digits is then resolved over the first node and evaluated on the value  *)
(* the first returned.  The fixed-point domain is left out: its rounding   *)
(* is my_decimal_round of the decimal library.                             *)
(***************************************************************************)
\* the constant digit counts run from -MaxRoundDigits to MaxRoundDigits - 1
MaxRoundDigits == 2

RoundDigitCounts ==
  {IntConst(FALSE, Neg(k), FALSE) : k \in 1 .. MaxRoundDigits}
    \cup {IntConst(FALSE, k, FALSE) : k \in 0 .. MaxRoundDigits - 1}
    \cup {IntConst(TRUE, Neg(1), FALSE), IntConst(FALSE, 0, TRUE)}

\* a column of the integer or real domain holding any word, or NULL
RoundColumns ==
  LET fields == {IntField(FALSE), IntField(TRUE), RealField}
  IN  {[f EXCEPT !.v = w] : f \in fields, w \in Words}
        \cup {[f EXCEPT !.null_value = TRUE] : f \in fields}

\* max_length left by Item_func_round::fix_length_and_dec in a node of the
\* integer domain (the length of the other domains is not followed)
Item_func_round_max_length(a, truncate) ==
  LET t == Item_func_round_fix_length_and_dec(a, truncate)
      length_can_increase ==
        IF ~truncate /\ IsNeg(a[1].v) /\ ~a[1].unsigned_flag THEN 1 ELSE 0
  IN  IF t.type = INT_RESULT THEN a[0].max_length + length_can_increase ELSE 0

\* the resolved node f as the first operand of another node, holding the
\* result r of its evaluation
NodeAsOperand(f, r) ==
  [Item(f.type, f.type, f.unsigned_flag, f.decimals, f.max_length, FALSE, "FUNC_ITEM")
     EXCEPT !.v = IF f.type = INT_RESULT THEN r.v ELSE 0, !.null_value = r.null_value]

\* the evaluation of the node of operator f.op resolved over the node f and
\* the digits a[1], f having returned r: the result type and the value
Item_func_round_over_round(f, a, r, session) ==
  LET truncate == f.op = "truncate"
      operands == Pair(NodeAsOperand(f, r), a[1])
      outer == Resolved(f.op, operands, session)
      \* val_real() of the node f
      value == IF f.type = INT_RESULT THEN Interp(r.v, f.unsigned_flag) ELSE r.v
  IN  [type |-> outer.type,
       res |-> CASE outer.type = INT_RESULT ->
                      Item_func_round_int_op(operands, outer.unsigned_flag, truncate)
                 [] outer.type = REAL_RESULT ->
                      IF r.null_value \/ a[1].null_value THEN NullResult
                      ELSE Value(my_double_round(value, a[1].v, a[1].unsigned_flag, truncate))
                 [] OTHER -> NullResult]

InitRound ==
  /\ \E op \in RoundOps :
       /\ func = [NoFunc EXCEPT !.op = op]
       /\ args \in {Pair(x, n) : x \in RoundColumns, n \in RoundDigitCounts}
  /\ out = NoOut
  /\ thd \in Sessions
  /\ TreeIdle

\* Item_func::fix_fields on the ROUND or TRUNCATE node
Item_func_round_fix_fields ==
  /\ ~func.fixed
  /\ func.op \in RoundOps
  /\ func' = Resolved(func.op, args, thd)
               @@ [max_length |-> Item_func_round_max_length(args, func.op = "truncate")]
  /\ UNCHANGED <<args, out, thd, treeVars>>

\* the node over the node is evaluated on the same row
Item_func_round_over_round_call ==
  /\ func.fixed
  /\ func.op \in RoundOps
  /\ out.entry \in {"val_int", "val_real"}
  /\ LET r == Item_func_round_over_round(func, args, out.res, thd)
     IN  out' = [entry |-> "over", calls |-> out.calls, stores |-> out.stores,
                 res |-> r.res, type |-> r.type, inner |-> out.res]
  /\ UNCHANGED <<func, args, thd, treeVars>>

NextRound ==
  \/ Item_func_round_fix_fields
  \/ Item_func_hybrid_field_type_val_int
  \/ Item_func_hybrid_field_type_val_real
  \/ Item_func_round_over_round_call

SpecRound == InitRound /\ [][NextRound]_vars

\* the node over the node was evaluated
RoundedTwice == out.entry = "over"

\* C20: ROUND(ROUND(x, n), n) = ROUND(x, n) and TRUNCATE(TRUNCATE(x, n), n) =
\* TRUNCATE(x, n): the node over the node has the result type of the node
\* and returns the value the node returned, NULL where it returned NULL, for
\* every word x of a signed or unsigned integer column, every real x and
\* every constant n
C20_RoundIdempotent ==
  RoundedTwice =>
    /\ out.type = func.type
    /\ out.res.null_value = out.inner.null_value
    /\ ~out.res.null_value => out.res.v = out.inner.v

(***************************************************************************)
(* ROUND at exact halves.  The node is resolved over an integer or         *)
(* fixed-point column and a digits operand that is a column too, so that   *)
(* the integer column is rounded in the real domain (my_double_round) and  *)
(* the fixed-point column in the fixed-point domain (my_decimal_round).    *)
(***************************************************************************)
\* a column of the integer or fixed-point domain holding any word
HalfColumns ==
  LET fields == {IntField(FALSE), IntField(TRUE),
                 DecimalField(FALSE, 0, ShortLength), DecimalField(TRUE, 0, ShortLength)}
  IN  {[f EXCEPT !.v = w] : f \in fields, w \in Words}

\* the digits column holds a count from -MaxRoundDigits to MaxRoundDigits - 1
HalfDigits ==
  {[IntField(FALSE) EXCEPT !.v = Neg(k)] : k \in 1 .. MaxRoundDigits}
    \cup {[IntField(FALSE) EXCEPT !.v = k] : k \in 0 .. MaxRoundDigits - 1}

InitHalf ==
  /\ \E op \in RoundOps :
       /\ func = [NoFunc EXCEPT !.op = op]
       /\ args \in {Pair(x, n) : x \in HalfColumns, n \in HalfDigits}
  /\ out = NoOut
  /\ thd \in Sessions
  /\ TreeIdle

NextHalf ==
  \/ Item_func_round_fix_fields
  \/ Item_func_hybrid_field_type_val_real
  \/ Item_func_hybrid_field_type_val_decimal

SpecHalf == InitHalf /\ [][NextHalf]_vars

\* the number the first operand holds
HalfOperand == Interp(args[0].v, args[0].unsigned_flag)

\* the power of ten the second operand asks to round to
HalfUnit == 10 ^ Neg(args[1].v)

\* ROUND was evaluated to a value on an operand exactly halfway between two
\* multiples of the unit
RoundedAtHalf ==
  /\ out.entry # "none"
  /\ func.op = "round"
  /\ ~out.res.null_value
  /\ IsNeg(args[1].v)
  /\ 2 * (Abs(HalfOperand) % HalfUnit) = HalfUnit

\* C21: on a value exactly halfway between two multiples of the unit, ROUND
\* in the real domain returns the multiple whose quotient by the unit is
\* even (rint under the default mode), and ROUND in the fixed-point domain
\* returns the multiple away from zero; the two differ on some operand
C21_HalfByDomain ==
  RoundedAtHalf =>
    LET below == HalfOperand - HalfUnit \div 2
        above == HalfOperand + HalfUnit \div 2
    IN  /\ func.type \in {REAL_RESULT, DECIMAL_RESULT}
        /\ func.type = REAL_RESULT =>
             out.res.v = IF (below \div HalfUnit) % 2 = 0 THEN below ELSE above
        /\ func.type = DECIMAL_RESULT =>
             out.res.v = IF HalfOperand > 0 THEN above ELSE below

\* a half rounded in the real domain to the even multiple, where the
\* fixed-point evaluator returns the other multiple on the same operands
C21_Witness ==
  /\ RoundedAtHalf
  /\ func.type = REAL_RESULT
  /\ out.res.v # Item_func_round_decimal_op(args, func.decimals, FALSE, E_DEC_OK).v

(***************************************************************************)
(* The statuses of the decimal library in +, -, *, / and %.  The node is   *)
(* resolved over two operands of which one at least is fixed-point, and    *)
(* evaluated on a row; the evaluation records the status the library       *)
(* primitive returned.                                                     *)
(***************************************************************************)
DecOperands ==
  LET fields == {DecimalField(FALSE, 0, ShortLength), DecimalField(TRUE, 0, ShortLength),
                 IntField(FALSE)}
      columns == {WithValue(f, x) : f \in fields, x \in Values}
  IN  {Pair(x, y) : x \in columns, y \in columns} \
        {a \in [{0, 1} -> columns] : a[0].rt = INT_RESULT /\ a[1].rt = INT_RESULT}

InitDec ==
  /\ \E op \in BinaryHybridOps :
       /\ func = [NoFunc EXCEPT !.op = op]
       /\ args \in DecOperands
  /\ out = NoOut
  /\ thd \in Sessions
  /\ TreeIdle

\* Item_func::fix_fields on the arithmetic node
Item_num_op_fix_fields ==
  /\ ~func.fixed
  /\ func.op \in BinaryHybridOps
  /\ func' = Resolved(func.op, args, thd)
  /\ UNCHANGED <<args, out, thd, treeVars>>

\* Item_func_hybrid_field_type::val_decimal of a node of the fixed-point
\* domain: decimal_op, the library primitive returning the status st
Item_func_hybrid_field_type_val_decimal_status ==
  /\ func.fixed
  /\ func.type = DECIMAL_RESULT
  /\ out.entry = "none"
  /\ \E st \in DecimalStatuses(func.op, args) :
       out' = [entry |-> "val_decimal", calls |-> <<"decimal_op">>, stores |-> {},
               res |-> decimal_op(func, args, thd.sql_mode, st), status |-> st]
  /\ UNCHANGED <<func, args, thd, treeVars>>

NextDec ==
  \/ Item_num_op_fix_fields
  \/ Item_func_hybrid_field_type_val_decimal_status

SpecDec == InitDec /\ [][NextDec]_vars

\* a fixed-point +, -, *, / or % was evaluated on operands that are not NULL
DecimalEvaluated ==
  /\ out.entry = "val_decimal"
  /\ ~args[0].null_value
  /\ ~args[1].null_value

\* the value the primitive computes
DecimalComputed ==
  LET x == val_decimal(args[0])
      y == val_decimal(args[1])
  IN  CASE func.op = "plus" -> x + y
        [] func.op = "minus" -> x - y
        [] func.op = "mul" -> x * y
        [] func.op = "div" -> TruncDiv(x, y)
        [] func.op = "mod" -> TruncMod(x, y)

\* Ok and Truncated return the computed value; DivisionByZero of / and % is
\* NULL with the warning of the strict mode and no out-of-range error
DecimalStatusesButOverflow ==
  /\ out.status \in {E_DEC_OK, E_DEC_TRUNCATED} =>
       out.res = Value(DecimalComputed)
  /\ out.status = E_DEC_DIV_ZERO =>
       /\ func.op \in {"div", "mod"}
       /\ out.res.null_value
       /\ ~out.res.overflow
       /\ out.res.warned <=> MODE_ERROR_FOR_DIVISION_BY_ZERO \in thd.sql_mode

libm(function, x) == Value(<<function, x>>)

Item_func_ln_val_real(a, mode) ==
  LET value == val_real(a[0])
  IN  IF a[0].null_value THEN NullResult
      ELSE IF value <= 0 THEN signal_divide_by_null(mode)
      ELSE libm("log", <<value>>)

\* Item_func_log::val_real without the test of a base equal to one
Item_func_log_val_real_any_base(a, mode) ==
  LET value == val_real(a[0])
  IN  IF a[0].null_value THEN NullResult
      ELSE IF value <= 0 THEN signal_divide_by_null(mode)
      ELSE IF arg_count(a) = 2
           THEN (LET value2 == val_real(a[1])
                 IN  IF a[1].null_value THEN NullResult
                     ELSE IF value2 <= 0 THEN signal_divide_by_null(mode)
                     ELSE libm("log / log", <<value2, value>>))
           ELSE libm("log", <<value>>)

Item_func_log_val_real(a, mode) ==
  LET value == val_real(a[0])
  IN  IF a[0].null_value THEN NullResult
      ELSE IF value <= 0 THEN signal_divide_by_null(mode)
      ELSE IF arg_count(a) = 2
           THEN (LET value2 == val_real(a[1])
                 IN  IF a[1].null_value THEN NullResult
                     ELSE IF value2 <= 0 \/ value = 1 THEN signal_divide_by_null(mode)
                     ELSE libm("log / log", <<value2, value>>))
           ELSE libm("log", <<value>>)

Item_func_log2_val_real(a, mode) ==
  LET value == val_real(a[0])
  IN  IF a[0].null_value THEN NullResult
      ELSE IF value <= 0 THEN signal_divide_by_null(mode)
      ELSE libm("log / M_LN2", <<value>>)

Item_func_log10_val_real(a, mode) ==
  LET value == val_real(a[0])
  IN  IF a[0].null_value THEN NullResult
      ELSE IF value <= 0 THEN signal_divide_by_null(mode)
      ELSE libm("log10", <<value>>)

Item_func_sqrt_val_real(a) ==
  LET value == val_real(a[0])
  IN  IF a[0].null_value \/ value < 0 THEN NullResult
      ELSE libm("sqrt", <<value>>)

Item_func_acos_val_real(a) ==
  LET value == val_real(a[0])
  IN  IF a[0].null_value \/ (value < 0 - 1 \/ value > 1) THEN NullResult
      ELSE libm("acos", <<value>>)

Item_func_asin_val_real(a) ==
  LET value == val_real(a[0])
  IN  IF a[0].null_value \/ (value < 0 - 1 \/ value > 1) THEN NullResult
      ELSE libm("asin", <<value>>)

MathOps == {"ln", "log", "log2", "log10", "sqrt", "acos", "asin"}

\* an integer or real column holding any word, or NULL
MathColumns ==
  LET fields == {IntField(FALSE), RealField}
  IN  {[f EXCEPT !.v = w] : f \in fields, w \in Words}
        \cup {[f EXCEPT !.null_value = TRUE] : f \in fields}

\* LOG takes one operand, or the base and one operand
MathOperands(op) ==
  {Single(x) : x \in MathColumns}
    \cup (IF op = "log" THEN {Pair(b, x) : b \in MathColumns, x \in MathColumns} ELSE {})

\* the node is resolved: every val_real asserts fixed == 1
InitMath ==
  /\ \E op \in MathOps :
       /\ func = [NoFunc EXCEPT !.op = op, !.fixed = TRUE]
       /\ args \in MathOperands(op)
  /\ out = NoOut
  /\ thd \in Sessions
  /\ TreeIdle

\* the node of operator op is evaluated by val_real, which returns r
MathCall(op, r) ==
  /\ func.fixed
  /\ func.op = op
  /\ out.entry = "none"
  /\ out' = [entry |-> "val_real", calls |-> <<>>, stores |-> {}, res |-> r]
  /\ UNCHANGED <<func, args, thd, treeVars>>

Item_func_ln_val_real_call == MathCall("ln", Item_func_ln_val_real(args, thd.sql_mode))

Item_func_log_val_real_call == MathCall("log", Item_func_log_val_real(args, thd.sql_mode))

Item_func_log2_val_real_call == MathCall("log2", Item_func_log2_val_real(args, thd.sql_mode))

Item_func_log10_val_real_call == MathCall("log10", Item_func_log10_val_real(args, thd.sql_mode))

Item_func_sqrt_val_real_call == MathCall("sqrt", Item_func_sqrt_val_real(args))

Item_func_acos_val_real_call == MathCall("acos", Item_func_acos_val_real(args))

Item_func_asin_val_real_call == MathCall("asin", Item_func_asin_val_real(args))

NextMath ==
  \/ Item_func_ln_val_real_call
  \/ Item_func_log_val_real_call
  \/ Item_func_log2_val_real_call
  \/ Item_func_log10_val_real_call
  \/ Item_func_sqrt_val_real_call
  \/ Item_func_acos_val_real_call
  \/ Item_func_asin_val_real_call

SpecMath == InitMath /\ [][NextMath]_vars

\* the function was evaluated on operands that are not NULL
MathEvaluated ==
  /\ out.entry = "val_real"
  /\ \A i \in DOMAIN args : ~args[i].null_value

\* the operands are where the function is not defined
DomainError ==
  LET x == val_real(args[0])
  IN  CASE func.op \in {"ln", "log2", "log10"} -> x <= 0
        [] func.op = "log" ->
             IF arg_count(args) = 2
             THEN x <= 0 \/ x = 1 \/ val_real(args[1]) <= 0
             ELSE x <= 0
        [] func.op = "sqrt" -> x < 0
        [] func.op \in {"acos", "asin"} -> x < 0 - 1 \/ x > 1

\* C23: LN, LOG, LOG2, LOG10 of a value <= 0, LOG with a base <= 0 or = 1 or
\* an argument <= 0, SQRT of a negative value and ASIN, ACOS outside [-1, 1]
\* return NULL and raise no error; every other operand that is not NULL
\* gives a value that is not NULL
C23_DomainErrorIsNull ==
  MathEvaluated =>
    /\ out.res.null_value <=> DomainError
    /\ ~out.res.overflow

\* LOG with base 1 of a positive argument is NULL
C23_Witness ==
  /\ MathEvaluated
  /\ func.op = "log"
  /\ arg_count(args) = 2
  /\ val_real(args[0]) = 1
  /\ val_real(args[1]) > 0
  /\ out.res.null_value

(***************************************************************************)
(* The precision increment of a division.  The node of / is resolved once  *)
(* under the session of that moment; afterwards the session changes, the   *)
(* operands take the values of other rows and the node is evaluated, in    *)
(* any order.  An evaluation in the fixed-point domain records the         *)
(* increment it passes to my_decimal_div.                                  *)
(***************************************************************************)
\* the increment read again from the session at the evaluation
Item_func_div_prec_increment_reread(f, session) == session.div_precincrement

\* the last argument of my_decimal_div in Item_func_div::decimal_op: the
\* member prec_increment of the node
Item_func_div_prec_increment(f, session) == f.prec_increment

InitDiv ==
  /\ func = [NoFunc EXCEPT !.op = "div"]
  /\ args \in Operands("div")
  /\ out = NoOut
  /\ thd \in Sessions
  /\ TreeIdle

\* Item_func_hybrid_field_type::val_decimal of a division of the fixed-point
\* domain
Item_func_div_val_decimal ==
  /\ func.fixed
  /\ func.op = "div"
  /\ func.type = DECIMAL_RESULT
  /\ \E st \in Statuses(func, args) :
       LET r == Item_func_hybrid_field_type_dispatch(func, args, thd.sql_mode, st)
           stores == Stores(func, r.calls)
       IN  /\ out' = [entry |-> "val_decimal", calls |-> r.calls, stores |-> stores,
                      res |-> r.res,
                      prec_increment |-> Item_func_div_prec_increment(func, thd)]
           /\ func' = AfterEvaluation(func, stores)
  /\ UNCHANGED <<args, thd, treeVars>>

NextDiv ==
  \/ Item_num_op_fix_fields
  \/ set_session
  \/ next_row
  \/ Item_func_hybrid_field_type_val_real
  \/ Item_func_div_val_decimal

SpecDiv == InitDiv /\ [][NextDiv]_vars

\* the resolved attributes of the node are those of a resolution under the
\* increment the node holds, and a fixed-point evaluation used that increment
DivisionUsesSnapshot ==
  func.fixed =>
    /\ Attrs(func.type, func.decimals, func.unsigned_flag)
         = Item_func_div_fix_length_and_dec(args, func.prec_increment)
    /\ (out.entry = "val_decimal") => out.prec_increment = func.prec_increment

\* the resolution reads the session; no step changes a resolved node
DivisionResolvedOnce ==
  /\ (~func.fixed /\ func'.fixed) => func'.prec_increment = thd.div_precincrement
  /\ func.fixed => func' = func

\* C24: the precision increment of / is read from the session at the
\* resolution of the node; whatever the interleaving of session changes,
\* rows and evaluations, every evaluation uses the increment the scale of
\* the node was computed with, and no evaluation changes the resolved node
C24_DivisionSnapshot == [] DivisionUsesSnapshot /\ [][DivisionResolvedOnce]_vars

\* a fixed-point division evaluated with the increment of its resolution
\* after the session changed the increment
C24_Witness ==
  /\ func.fixed
  /\ out.entry = "val_decimal"
  /\ thd.div_precincrement # func.prec_increment
  /\ out.prec_increment = func.prec_increment
  /\ func.decimals = Min(decimal_scale(args[0]) + func.prec_increment, DECIMAL_MAX_SCALE)

(***************************************************************************)
(* Integer DIV and % over every pair of words and every combination of     *)
(* operand signedness.                                                     *)
(***************************************************************************)
\* the integer path of DIV was evaluated with a divisor that is not zero
IntDivEvaluated ==
  /\ IntEvaluated("int_div")
  /\ args[0].rt = INT_RESULT
  /\ args[1].rt = INT_RESULT
  /\ args[1].v # 0

\* the quotient of the operands truncated toward zero
ExactQuotient == TruncDiv(Operand(0), Operand(1))

\* C25: with a divisor that is not zero, for every combination of operand
\* signedness, DIV returns the quotient truncated toward zero whenever the
\* node's signedness can represent it, with no error and not NULL, and gives
\* the overflow outcome only when it cannot (signed INT64_MIN DIV 1 returns
\* INT64_MIN)
C25_IntDivExactWhenRepresentable ==
  IntDivEvaluated =>
    /\ Representable(ExactQuotient, func.unsigned_flag) =>
         /\ ~out.res.overflow
         /\ ~out.res.null_value
         /\ ~out.res.warned
         /\ Returned = ExactQuotient
    /\ out.res.overflow => ~Representable(ExactQuotient, func.unsigned_flag)

InitMod ==
  /\ \E u0 \in BOOLEAN, u1 \in BOOLEAN :
       \E v0 \in Words, v1 \in Words :
         /\ func = [NoFunc EXCEPT !.op = "mod"]
         /\ args = Pair([IntField(u0) EXCEPT !.v = v0], [IntField(u1) EXCEPT !.v = v1])
  /\ out = NoOut
  /\ thd \in Sessions
  /\ TreeIdle

NextMod ==
  \/ Item_num_op_fix_fields
  \/ Item_func_hybrid_field_type_val_int

SpecMod == InitMod /\ [][NextMod]_vars

\* the integer evaluator of % ran with a divisor that is not zero
IntModEvaluated ==
  /\ IntEvaluated("mod")
  /\ args[1].v # 0

\* |a| mod |b|
ModMagnitude == Abs(Operand(0)) % Abs(Operand(1))

\* C26: integer % with a divisor that is not zero, for every combination of
\* operand signedness: the result is not NULL, its magnitude is |a| mod |b|,
\* less than |b|, its sign is that of the dividend or it is zero, and no
\* overflow is raised (signed INT64_MIN % -1 = 0)
C26_IntModMagnitudeAndSign ==
  IntModEvaluated =>
    /\ ~out.res.overflow
    /\ ~out.res.null_value
    /\ Abs(Returned) = ModMagnitude
    /\ Abs(Returned) < Abs(Operand(1))
    /\ Returned # 0 => (Returned < 0 <=> Operand(0) < 0)

\* signed INT64_MIN % -1 was evaluated and gave 0
C26_Witness ==
  /\ IntModEvaluated
  /\ ~args[0].unsigned_flag /\ ~args[1].unsigned_flag
  /\ args[0].v = LONGLONG_MIN /\ args[1].v = ULONGLONG_MAX
  /\ out.res.v = 0
  /\ ~out.res.overflow

\* the integer evaluator of ROUND or TRUNCATE ran on operands that are not
\* NULL
RoundIntEvaluated ==
  /\ func.op \in RoundOps
  /\ func.type = INT_RESULT
  /\ out.entry \in {"val_int", "val_real"}
  /\ ~args[0].null_value
  /\ ~args[1].null_value

\* the digit count is negative
RoundsAboveThePoint == IsNeg(args[1].v) /\ ~args[1].unsigned_flag

\* the number rounded, and the power of ten it is rounded to
RoundOperand == Interp(args[0].v, func.unsigned_flag)

RoundUnit == 10 ^ Neg(args[1].v)

\* C27: integer ROUND and TRUNCATE on operands that are not NULL: with
\* n >= 0 or an unsigned n the value is returned unchanged; with n < 0 the
\* result is a multiple of 10^|n|, for TRUNCATE the multiple nearest to x
\* toward zero, for ROUND the nearest multiple with halves away from zero,
\* for every |n| within and beyond the table of powers of ten
C27_RoundIntExact ==
  RoundIntEvaluated =>
    /\ ~out.res.null_value
    /\ ~RoundsAboveThePoint => out.res.v = args[0].v
    /\ RoundsAboveThePoint =>
         /\ Abs(Returned) % RoundUnit = 0
         /\ func.op = "truncate" =>
              /\ Returned = TruncDiv(RoundOperand, RoundUnit) * RoundUnit
              /\ Abs(Returned) <= Abs(RoundOperand)
         /\ func.op = "round" =>
              Returned = RoundHalfAwayDiv(RoundOperand, RoundUnit) * RoundUnit

(***************************************************************************)
(* Failure of Item_func::fix_fields (specification SpecFix).               *)
(***************************************************************************)
\* the step is a return of TRUE: of the call that is entered, or of every
\* call in progress
FailingReturn ==
  /\ stack' = <<>>
  /\ log'.ret.node # 0
  /\ ~log'.ret.ok
  /\ stack # <<>> \/ log'.ret # log.ret

\* the operands of the frame's node that its loop has not reached
OperandsAhead(frame) ==
  {tree[frame.node][j] : j \in {k \in DOMAIN tree[frame.node] : k > frame.arg}}

\* at a failing return no flag changes, the node of every call in progress
\* and the node the caller asked for stay unresolved
FailureLeavesUnresolved ==
  FailingReturn =>
    /\ fixed' = fixed
    /\ ~fixed'[log'.ret.node]
    /\ \A i \in DOMAIN stack : ~fixed'[stack[i].node]

\* a step of a call sets the flag of no node but the node of the top frame,
\* once its loop is over, and of no operand, nor node below an operand, that
\* a loop in progress has not reached
CallFixesOnlyTop ==
  stack # <<>> =>
    /\ \A n \in Nodes :
         fixed'[n] # fixed[n] => n = Top.node /\ Top.arg > Len(tree[Top.node])
    /\ \A i \in DOMAIN stack :
         \A c \in OperandsAhead(stack[i]) :
           \A n \in Subtree(tree, c) : fixed'[n] = fixed[n]

\* C28: when the resolution of an operand, the column-count check of an
\* operand or fix_length_and_dec fails, fix_fields returns an error at once,
\* the fixed flag of the node stays false, and the call has resolved no
\* operand after the failing one
C28_FailureLeavesNodeUnresolved == [][FailureLeavesUnresolved /\ CallFixesOnlyTop]_vars

\* the root has two operands or more, the call resolved the first, failed
\* after it and returned an error: the root and its last operand are not
\* resolved
C28_Witness ==
  /\ stack = <<>>
  /\ log.ret = [node |-> 1, ok |-> FALSE]
  /\ Len(tree[1]) >= 2
  /\ fixed[tree[1][1]]
  /\ log.by[tree[1][1]] = "fix_fields"
  /\ tree[1][1] \notin log.skipped
  /\ ~fixed[tree[1][Len(tree[1])]]
  /\ ~fixed[1]
  /\ log.fld[1] = "none"

(***************************************************************************)
(* Integer negation over every word: the operand is a signed or unsigned   *)
(* column or literal.                                                      *)
(***************************************************************************)
NegOperands ==
  {Single([IntField(u) EXCEPT !.v = w]) : u \in BOOLEAN, w \in Words}
    \cup {Single(IntConst(u, w, FALSE)) : u \in BOOLEAN, w \in Words}

InitNeg ==
  /\ func = [NoFunc EXCEPT !.op = "neg"]
  /\ args \in NegOperands
  /\ out = NoOut
  /\ thd \in Sessions
  /\ TreeIdle

NextNeg ==
  \/ Item_func_fix_fields
  \/ Item_func_hybrid_field_type_val_int

SpecNeg == InitNeg /\ [][NextNeg]_vars

\* the integer evaluator of the negation ran on an operand that is not NULL
NegIntEvaluated ==
  /\ func.op = "neg"
  /\ func.type = INT_RESULT
  /\ out.entry # "none"
  /\ ~args[0].null_value

\* C29: integer negation of an operand that is not NULL: an unsigned operand
\* above 2^63 gives the overflow outcome, an unsigned operand equal to 2^63
\* gives INT64_MIN, a signed operand equal to INT64_MIN gives the overflow
\* outcome, and every other operand x gives exactly -x
C29_NegExactOrOverflow ==
  NegIntEvaluated =>
    LET x == Operand(0)
        uns == args[0].unsigned_flag
    IN  CASE uns /\ x > LONGLONG_MAX + 1 -> out.res.overflow
          [] uns /\ x = LONGLONG_MAX + 1 ->
               ~out.res.overflow /\ ~out.res.null_value /\ Returned = 0 - LONGLONG_MIN
          [] ~uns /\ x = 0 - LONGLONG_MIN -> out.res.overflow
          [] OTHER -> ~out.res.overflow /\ ~out.res.null_value /\ Returned = 0 - x

\* the negation of the unsigned 2^63 was evaluated and gave INT64_MIN
C29_Witness ==
  /\ NegIntEvaluated
  /\ args[0].unsigned_flag
  /\ args[0].v = LONGLONG_MIN
  /\ out.res.v = LONGLONG_MIN
  /\ ~out.res.overflow

(***************************************************************************)
(* User-level locks: GET_LOCK and RELEASE_LOCK of one session on one name. *)
(* The session (thd) holds slave_thread, ull_hash (whether it is           *)
(* initialised and its entries, each a User_level_lock with its key, its   *)
(* MDL ticket and refs), and the MDL tickets of its mdl_context; it also   *)
(* records whether another session owns the MDL lock of the name.  refs is *)
(* an int: INT_MAX is RefMax here.  log counts the calls: the GET_LOCK     *)
(* that returned 1, the RELEASE_LOCK that returned 1, the MDL locks        *)
(* acquired and released by the session.                                   *)
(***************************************************************************)
\* INT_MAX of the model
RefMax == 3

\* a session makes at most MaxLockCalls calls
MaxLockCalls == 6

Ints == (0 - RefMax - 1) .. RefMax

\* refs++: the increment of INT_MAX is undefined
refs_increment(refs) == IF refs < RefMax THEN {refs + 1} ELSE Ints

\* --refs: the decrement of INT_MIN is undefined
refs_decrement(refs) == IF refs > 0 - RefMax - 1 THEN {refs - 1} ELSE Ints

LockName == "a"

\* my_hash_search(&thd->ull_hash, key)
my_hash_search(session, key) == {ull \in session.ull_hash : ull.key = key}

\* thd->mdl_context.get_lock_owner(&ull_key): some session owns the lock
get_lock_owner(session, key) ==
  session.other_owner \/ \E t \in session.mdl_context : t.key = key

InitLock ==
  /\ func = [NoFunc EXCEPT !.op = "get_lock", !.fixed = TRUE]
  /\ args = Pair(StringField, IntField(FALSE))
  /\ out = NoOut
  /\ \E slave \in BOOLEAN :
       thd = [sql_mode |-> {}, div_precincrement |-> 0, slave_thread |-> slave,
              ull_hash_inited |-> FALSE, ull_hash |-> {}, mdl_context |-> {},
              other_owner |-> FALSE]
  /\ tree = <<>>
  /\ fixed = <<>>
  /\ stack = <<>>
  /\ log = [calls |-> 0, gets |-> 0, releases |-> 0, acquired |-> 0, released |-> 0]

\* the call returned v with null_value isnull
LockReturn(entry, v, isnull) ==
  out' = [entry |-> entry, calls |-> <<>>, stores |-> {}, res |-> Result(v, isnull, FALSE, FALSE)]

\* Item_func_get_lock::val_int.  name_ok is ull_name_ok(res), timeout_ok the
\* test of args[1]; hash_init, malloc, hash_insert tell which allocation
\* fails, killed whether the wait for the MDL lock is killed
Item_func_get_lock_val_int ==
  /\ log.calls < MaxLockCalls
  /\ \E name_ok \in BOOLEAN, timeout_ok \in BOOLEAN, hash_init \in BOOLEAN, killed \in BOOLEAN,
        malloc \in BOOLEAN, hash_insert \in BOOLEAN :
       LET found == my_hash_search(thd, LockName)
           ticket == [key |-> LockName, id |-> log.acquired + 1]
           count(gets, acquired, released) ==
             log' = [log EXCEPT !.calls = @ + 1, !.gets = @ + gets,
                                !.acquired = @ + acquired, !.released = @ + released]
       IN  IF thd.slave_thread
           THEN /\ LockReturn("get_lock", 1, FALSE)
                /\ count(1, 0, 0)
                /\ thd' = thd
           ELSE IF ~timeout_ok \/ ~name_ok
           THEN /\ LockReturn("get_lock", 0, TRUE)
                /\ count(0, 0, 0)
                /\ thd' = thd
           ELSE IF ~thd.ull_hash_inited /\ ~hash_init
           THEN /\ LockReturn("get_lock", 0, TRUE)
                /\ count(0, 0, 0)
                /\ thd' = thd
           ELSE IF found # {}
           THEN \* recursive lock
                \E ull \in found :
                  \E refs \in refs_increment(ull.refs) :
                    /\ thd' = [thd EXCEPT !.ull_hash = (@ \ {ull}) \cup {[ull EXCEPT !.refs = refs]}]
                    /\ LockReturn("get_lock", 1, FALSE)
                    /\ count(1, 0, 0)
           ELSE IF thd.other_owner \/ killed
           THEN \* acquire_lock fails: lock wait timeout, or the wait is killed
                /\ LockReturn("get_lock", 0, killed)
                /\ count(0, 0, 0)
                /\ thd' = [thd EXCEPT !.ull_hash_inited = TRUE]
           ELSE IF ~malloc \/ ~hash_insert
           THEN \* the ticket is released again
                /\ LockReturn("get_lock", 0, TRUE)
                /\ count(0, 1, 1)
                /\ thd' = [thd EXCEPT !.ull_hash_inited = TRUE]
           ELSE /\ thd' = [thd EXCEPT !.ull_hash_inited = TRUE,
                                      !.mdl_context = @ \cup {ticket},
                                      !.ull_hash = @ \cup {[key |-> LockName, lock |-> ticket,
                                                            refs |-> 1]}]
                /\ LockReturn("get_lock", 1, FALSE)
                /\ count(1, 1, 0)
  /\ UNCHANGED <<func, args, tree, fixed, stack>>

\* Item_func_release_lock::val_int
Item_func_release_lock_val_int ==
  /\ log.calls < MaxLockCalls
  /\ \E name_ok \in BOOLEAN :
       LET found == my_hash_search(thd, LockName)
       IN  IF ~name_ok
           THEN /\ LockReturn("release_lock", 0, TRUE)
                /\ log' = [log EXCEPT !.calls = @ + 1]
                /\ thd' = thd
           ELSE IF ~thd.ull_hash_inited \/ found = {}
           THEN /\ LockReturn("release_lock", 0, ~get_lock_owner(thd, LockName))
                /\ log' = [log EXCEPT !.calls = @ + 1]
                /\ thd' = thd
           ELSE \E ull \in found :
                  \E refs \in refs_decrement(ull.refs) :
                    /\ IF refs = 0
                       THEN /\ thd' = [thd EXCEPT !.ull_hash = @ \ {ull},
                                                  !.mdl_context = @ \ {ull.lock}]
                            /\ log' = [log EXCEPT !.calls = @ + 1, !.releases = @ + 1,
                                                  !.released = @ + 1]
                       ELSE /\ thd' = [thd EXCEPT !.ull_hash =
                                         (@ \ {ull}) \cup {[ull EXCEPT !.refs = refs]}]
                            /\ log' = [log EXCEPT !.calls = @ + 1, !.releases = @ + 1]
                    /\ LockReturn("release_lock", 1, FALSE)
  /\ UNCHANGED <<func, args, tree, fixed, stack>>

\* another session takes the MDL lock of the name when it is free, or
\* releases it
other_session ==
  /\ thd.mdl_context = {}
  /\ thd' = [thd EXCEPT !.other_owner = ~@]
  /\ UNCHANGED <<func, args, out, treeVars>>

NextLock ==
  \/ Item_func_get_lock_val_int
  \/ Item_func_release_lock_val_int
  \/ other_session

SpecLock == InitLock /\ [][NextLock]_vars

\* the entries of the session's hash for the name
LockEntries == my_hash_search(thd, LockName)

\* at most one entry; while it exists its refs is at least 1 and equals the
\* GET_LOCK that returned 1 less the RELEASE_LOCK that returned 1; the
\* session holds the MDL lock exactly while the entry exists, having
\* acquired one more lock than it released
LockCounts ==
  /\ Cardinality(LockEntries) <= 1
  /\ \A ull \in LockEntries :
       /\ ull.refs >= 1
       /\ ull.refs = log.gets - log.releases
       /\ thd.mdl_context = {ull.lock}
       /\ log.acquired - log.released = 1
  /\ LockEntries = {} =>
       /\ thd.mdl_context = {}
       /\ log.acquired = log.released

\* a step that takes or drops an MDL lock is a GET_LOCK that creates the
\* entry with refs 1 or a RELEASE_LOCK that brings refs to 0 and removes the
\* entry; a RELEASE_LOCK without an entry returns 0 or NULL and changes no
\* lock state
LockTransitions ==
  /\ thd'.mdl_context # thd.mdl_context =>
       \/ /\ LockEntries = {}
          /\ \E ull \in thd'.ull_hash : ull.refs = 1 /\ thd'.mdl_context = {ull.lock}
       \/ /\ \E ull \in LockEntries : ull.refs = 1
          /\ thd'.ull_hash = {}
          /\ thd'.mdl_context = {}
  /\ (log'.calls # log.calls /\ out'.entry = "release_lock" /\ LockEntries = {}) =>
       /\ out'.res.v = 0
       /\ thd' = thd
       /\ log'.releases = log.releases
       /\ log'.released = log.released

\* C30: for any sequence of GET_LOCK and RELEASE_LOCK by one session on one
\* name, the hash holds at most one entry for the name, its refs is the
\* number of GET_LOCK that returned 1 less the number of RELEASE_LOCK that
\* returned 1 and is at least 1 while the entry exists, the MDL lock is
\* acquired on the transition from 0 to 1 and released on the transition
\* from 1 to 0, and a RELEASE_LOCK on a name not held returns 0 or NULL and
\* changes no lock state
C30_LockReferenceCount == [] LockCounts /\ [][LockTransitions]_vars

====
